---- MODULE Spec2Model ----
(***************************************************************************)
(* A model of the Microbe-Wars simulation engine: the tick function        *)
(* advanceGameState (services/gamePhysics.ts), map generation and topology *)
(* regeneration (services/gameLogic.ts), the engine hook useGameEngine     *)
(* (hooks/useGameEngine.ts: handleAttack, togglePause, gameLoop) and the   *)
(* GameMap input handlers that issue attack commands.                      *)
(*                                                                         *)
(* Number representation.  The program computes with IEEE doubles; the     *)
(* model uses fixed point:                                                 *)
(*   - node counts are held in units of 1/CountScale (halves), which is    *)
(*     exact: payloads carry count 1 and FORTRESS halves the damage;       *)
(*   - growthAccumulator is held in units of 1/AccScale;                   *)
(*   - payload progress and speed are held in units of 1/ProgressScale;    *)
(*   - AI scores are held in units of 1/ScoreScale;                        *)
(*   - the logarithmic curves (growth increment, unit speed, spawn         *)
(*     interval) are tabulated for every count the model can reach.        *)
(* Times are integers in milliseconds, as Date.now() returns them.         *)
(***************************************************************************)
EXTENDS Integers, Sequences, FiniteSets, TLC

VARIABLES
  world,             \* worldRef.current: nodes, edges, payloads, transfers, latestEvents
  renderWorld,       \* the snapshot last published with setRenderWorld
  gameState,         \* MENU, TUTORIAL, PLAYING, PAUSED, VICTORY, DEFEAT
  winner,            \* the color setWinner stored, or "none"
  tutorialStep,      \* index into TUTORIAL_STEPS
  playerColor,       \* the human's color
  difficulty,        \* 1..6
  isPlayerAutoPilot,
  dateNow,           \* the last value Date.now() returned
  lastTickTime,      \* lastTickTimeRef
  lastAITime,        \* lastAITimeRef
  nextEventTime,     \* nextEventTimeRef
  pauseStartTime,    \* pauseStartTimeRef
  selectedNodeId,    \* GameMap: the node selected by a click (0: none)
  dragPath,          \* GameMap: the chain of node ids of the drag in progress
  idgen,             \* number of ids handed out (ids of transfers and payloads)
  steps,             \* how many ticks, commands, pauses have happened (bounds)
  last               \* a record of the last operation and what it did

vars == <<world, renderWorld, gameState, winner, tutorialStep, playerColor, difficulty,
          isPlayerAutoPilot, dateNow, lastTickTime, lastAITime, nextEventTime,
          pauseStartTime, selectedNodeId, dragPath, idgen, steps, last>>

----------------------------------------------------------------------------
(* Program constants (constants.ts)                                        *)

TICK_RATE_MS == 50
GROWTH_INTERVAL_MS == 1000
TRAVEL_SPEED_PIXELS == 4
BASE_SPAWN_INTERVAL_MS == 500
OCEAN_CURRENT_INTERVAL_MS == 60000
MAX_CAPACITY_BASE == 150
INITIAL_PLAYER_COUNT == 20

GRAY == "GRAY"
PLAYABLE_COLORS == <<"RED", "BLUE", "GREEN", "PURPLE", "ORANGE">>
PlayableSet == {PLAYABLE_COLORS[i] : i \in 1..Len(PLAYABLE_COLORS)}

Infinity == -1   \* the sentinel for an unbounded quota / unlimited actions

\* DIFFICULTY_SETTINGS: hesitationChance is held in percent.
DIFFICULTY_SETTINGS ==
  <<[actionInterval |-> 2000, maxActionsPerTick |-> 1,        hesitationChance |-> 50],
    [actionInterval |-> 1800, maxActionsPerTick |-> 2,        hesitationChance |-> 40],
    [actionInterval |-> 1500, maxActionsPerTick |-> 4,        hesitationChance |-> 30],
    [actionInterval |-> 1200, maxActionsPerTick |-> 8,        hesitationChance |-> 20],
    [actionInterval |-> 1000, maxActionsPerTick |-> 16,       hesitationChance |-> 10],
    [actionInterval |-> 1000, maxActionsPerTick |-> Infinity, hesitationChance |-> 0]>>

----------------------------------------------------------------------------
(* Fixed-point scales                                                      *)

CountScale == 2          \* counts in halves: incomingDamage * 0.5
AccScale == 10000        \* growthAccumulator in 1/10000
ProgressScale == 10000   \* progress and speed in 1/10000 of the path
ScoreScale == 20         \* AI scores in 1/20: diff * 0.1 on counts in halves
InkSpreadSpeed == 5      \* inkSpreadSpeed 0.05, captureProgress in percent
CaptureFull == 100       \* captureProgress 1

Min(a, b) == IF a < b THEN a ELSE b
Max(a, b) == IF a > b THEN a ELSE b
Abs(a) == IF a < 0 THEN 0 - a ELSE a

\* Math.floor(count / 2) as a whole number, for a count held in halves.
HalfOf(count) == count \div (2 * CountScale)

----------------------------------------------------------------------------
(* The logarithmic curves, tabulated.  Entry h+1 is the value for a count  *)
(* of h halves (count = h / CountScale).                                   *)

\* calculateGrowthIncrement(count, 1/20) * AccScale, rounded down:
\*   count <= 1 ? base : base * (1 + log10(count) * 0.5)
GrowthTable ==
  <<
     500, 500, 500, 544, 575, 599, 619, 636, 650, 663, 674, 685, 694, 703, 711, 718,
     725, 732, 738, 744, 750, 755, 760, 765, 769, 774, 778, 782, 786, 790, 794, 797,
     801, 804, 807, 810, 813, 816, 819, 822, 825, 827, 830, 833, 835, 838, 840, 842,
     845, 847, 849, 851, 853, 855, 857, 859, 861, 863, 865, 867, 869, 871, 872, 874,
     876, 877, 879, 881, 882, 884, 886, 887, 889, 890, 892, 893, 894, 896, 897, 899,
     900, 901, 903, 904, 905, 907, 908, 909, 910, 912, 913, 914, 915, 916, 918, 919,
     920, 921, 922, 923, 924, 925, 926, 927, 929, 930, 931, 932, 933, 934, 935, 936,
     937, 938, 938, 939, 940, 941, 942, 943, 944, 945, 946, 947, 948, 948, 949, 950,
     951, 952, 953, 954, 954, 955, 956, 957, 958, 958, 959, 960, 961, 962, 962, 963,
     964, 965, 965, 966, 967, 968, 968, 969, 970, 970, 971, 972, 973, 973, 974, 975,
     975, 976, 977, 977, 978, 979, 979, 980, 981, 981, 982, 982, 983, 984, 984, 985,
     986, 986, 987, 987, 988, 989, 989, 990, 990, 991, 992, 992, 993, 993, 994, 995,
     995, 996, 996, 997, 997, 998, 998, 999, 1000, 1000, 1001, 1001, 1002, 1002, 1003, 1003,
     1004, 1004, 1005, 1005, 1006, 1006, 1007, 1007, 1008, 1008, 1009, 1009, 1010, 1010, 1011, 1011,
     1012, 1012, 1013, 1013, 1014, 1014, 1015, 1015, 1016, 1016, 1017, 1017, 1017, 1018, 1018, 1019,
     1019, 1020, 1020, 1021, 1021, 1022, 1022, 1022, 1023, 1023, 1024, 1024, 1025, 1025, 1025, 1026,
     1026, 1027, 1027, 1028, 1028, 1028, 1029, 1029, 1030, 1030, 1030, 1031, 1031, 1032, 1032, 1032,
     1033, 1033, 1034, 1034, 1034, 1035, 1035, 1036, 1036, 1036, 1037, 1037, 1038, 1038, 1038, 1039,
     1039, 1039, 1040, 1040, 1041, 1041, 1041, 1042, 1042, 1042, 1043, 1043, 1044, 1044, 1044, 1045,
     1045, 1045, 1046, 1046, 1046, 1047, 1047, 1047, 1048, 1048, 1048, 1049, 1049, 1050, 1050, 1050,
     1051
  >>

\* calculateUnitSpeed(count, TRAVEL_SPEED_PIXELS) * 1000, rounded down:
\*   count <= 1 ? base : base * (1 + ln(count) * 0.2)
SpeedTable ==
  <<
     4000, 4000, 4000, 4324, 4554, 4733, 4878, 5002, 5109, 5203, 5287, 5363, 5433, 5497, 5556, 5611,
     5663, 5712, 5757, 5801, 5842, 5881, 5918, 5953, 5987, 6020, 6051, 6082, 6111, 6139, 6166, 6192,
     6218, 6242, 6266, 6289, 6312, 6334, 6355, 6376, 6396, 6416, 6435, 6454, 6472, 6490, 6508, 6525,
     6542, 6558, 6575, 6590, 6606, 6621, 6636, 6651, 6665, 6679, 6693, 6707, 6720, 6734, 6747, 6759,
     6772, 6784, 6797, 6809, 6821, 6832, 6844, 6855, 6866, 6877, 6888, 6899, 6910, 6920, 6930, 6941,
     6951, 6961, 6970, 6980, 6990, 6999, 7008, 7018, 7027, 7036, 7045, 7054, 7062, 7071, 7080, 7088,
     7096, 7105, 7113, 7121, 7129, 7137, 7145, 7153, 7160, 7168, 7176, 7183, 7191, 7198, 7205, 7213,
     7220, 7227, 7234, 7241, 7248, 7255, 7262, 7268, 7275, 7282, 7288, 7295, 7301, 7308, 7314, 7320,
     7327, 7333, 7339, 7345, 7351, 7357, 7363, 7369, 7375, 7381, 7387, 7393, 7398, 7404, 7410, 7415,
     7421, 7426, 7432, 7437, 7443, 7448, 7453, 7459, 7464, 7469, 7475, 7480, 7485, 7490, 7495, 7500,
     7505, 7510, 7515, 7520, 7525, 7530, 7535, 7539, 7544, 7549, 7554, 7558, 7563, 7568, 7572, 7577,
     7581, 7586, 7590, 7595, 7599, 7604, 7608, 7613, 7617, 7621, 7626, 7630, 7634, 7638, 7643, 7647,
     7651, 7655, 7659, 7663, 7667, 7672, 7676, 7680, 7684, 7688, 7692, 7696, 7699, 7703, 7707, 7711,
     7715, 7719, 7723, 7726, 7730, 7734, 7738, 7741, 7745, 7749, 7753, 7756, 7760, 7764, 7767, 7771,
     7774, 7778, 7781, 7785, 7788, 7792, 7795, 7799, 7802, 7806, 7809, 7813, 7816, 7819, 7823, 7826,
     7829, 7833, 7836, 7839, 7843, 7846, 7849, 7852, 7856, 7859, 7862, 7865, 7869, 7872, 7875, 7878,
     7881, 7884, 7887, 7890, 7894, 7897, 7900, 7903, 7906, 7909, 7912, 7915, 7918, 7921, 7924, 7927,
     7930, 7933, 7935, 7938, 7941, 7944, 7947, 7950, 7953, 7956, 7959, 7961, 7964, 7967, 7970, 7973,
     7975, 7978, 7981, 7984, 7986, 7989, 7992, 7995, 7997, 8000, 8003, 8005, 8008, 8011, 8013, 8016,
     8019, 8021, 8024, 8026, 8029, 8032, 8034, 8037, 8039, 8042, 8044, 8047, 8050, 8052, 8055, 8057,
     8060
  >>

\* calculateSpawnInterval(count), rounded down (an elapsed time in whole
\* milliseconds exceeds the interval iff it exceeds its integer part):
\*   max(40, BASE_SPAWN_INTERVAL_MS / (1 + ln(max(1, count))))
SpawnTable ==
  <<
     500, 500, 500, 355, 295, 260, 238, 221, 209, 199, 191, 184, 179, 174, 169, 165,
     162, 159, 156, 153, 151, 149, 147, 145, 143, 141, 140, 138, 137, 136, 134, 133,
     132, 131, 130, 129, 128, 127, 126, 125, 125, 124, 123, 122, 122, 121, 120, 120,
     119, 119, 118, 117, 117, 116, 116, 115, 115, 114, 114, 114, 113, 113, 112, 112,
     111, 111, 111, 110, 110, 110, 109, 109, 109, 108, 108, 108, 107, 107, 107, 106,
     106, 106, 106, 105, 105, 105, 105, 104, 104, 104, 104, 103, 103, 103, 103, 102,
     102, 102, 102, 101, 101, 101, 101, 101, 100, 100, 100, 100, 100, 100, 99, 99,
     99, 99, 99, 98, 98, 98, 98, 98, 98, 97, 97, 97, 97, 97, 97, 97,
     96, 96, 96, 96, 96, 96, 96, 95, 95, 95, 95, 95, 95, 95, 95, 94,
     94, 94, 94, 94, 94, 94, 94, 93, 93, 93, 93, 93, 93, 93, 93, 93,
     92, 92, 92, 92, 92, 92, 92, 92, 92, 91, 91, 91, 91, 91, 91, 91,
     91, 91, 91, 91, 90, 90, 90, 90, 90, 90, 90, 90, 90, 90, 90, 89,
     89, 89, 89, 89, 89, 89, 89, 89, 89, 89, 89, 88, 88, 88, 88, 88,
     88, 88, 88, 88, 88, 88, 88, 88, 87, 87, 87, 87, 87, 87, 87, 87,
     87, 87, 87, 87, 87, 87, 87, 86, 86, 86, 86, 86, 86, 86, 86, 86,
     86, 86, 86, 86, 86, 86, 86, 85, 85, 85, 85, 85, 85, 85, 85, 85,
     85, 85, 85, 85, 85, 85, 85, 85, 84, 84, 84, 84, 84, 84, 84, 84,
     84, 84, 84, 84, 84, 84, 84, 84, 84, 84, 84, 84, 83, 83, 83, 83,
     83, 83, 83, 83, 83, 83, 83, 83, 83, 83, 83, 83, 83, 83, 83, 83,
     83, 82, 82, 82, 82, 82, 82, 82, 82, 82, 82, 82, 82, 82, 82, 82,
     82
  >>

\* The largest count (in halves) the tables cover.
TableLimit == Len(GrowthTable) - 1

calculateGrowthIncrement(count) == GrowthTable[count + 1]
calculateUnitSpeed(count) == SpeedTable[count + 1]
calculateSpawnInterval(count) == SpawnTable[count + 1]

----------------------------------------------------------------------------
(* Geometry                                                                *)

RECURSIVE SqrtSearch(_, _, _)
SqrtSearch(n, lo, hi) ==
  \* the largest r in lo..hi with r * r <= n
  IF lo >= hi THEN lo
  ELSE LET mid == (lo + hi + 1) \div 2
       IN IF mid * mid <= n THEN SqrtSearch(n, mid, hi)
                            ELSE SqrtSearch(n, lo, mid - 1)

\* Squared distance of two nodes, and Math.hypot rounded down.
Dist2(a, b) == (a.x - b.x) * (a.x - b.x) + (a.y - b.y) * (a.y - b.y)
Hypot(a, b) == SqrtSearch(Dist2(a, b), 0, 2048)

NodeIds(nodes) == 1..Len(nodes)

----------------------------------------------------------------------------
(* Edges: generateEdgesForNodes and regenerateTopology                     *)

EdgeJoins(e, s, t) ==
  (e.source = s /\ e.target = t) \/ (e.source = t /\ e.target = s)

\* edges.some(e => joins s and t in either direction)
isConnected(edges, s, t) == \E k \in 1..Len(edges) : EdgeJoins(edges[k], s, t)

\* potentialEdges: all pairs i < j
PotentialEdges(nodes) ==
  {pr \in NodeIds(nodes) \X NodeIds(nodes) : pr[1] < pr[2]}

\* the order potentialEdges.sort((a, b) => a.d - b.d) puts the pairs in: by
\* distance, pairs of equal distance in the order the loops pushed them
PairBefore(nodes, p, q) ==
  LET dp == Dist2(nodes[p[1]], nodes[p[2]])
      dq == Dist2(nodes[q[1]], nodes[q[2]])
  IN dp < dq \/ (dp = dq /\ (p[1] < q[1] \/ (p[1] = q[1] /\ p[2] < q[2])))

RECURSIVE SortPairs(_, _)
SortPairs(nodes, S) ==
  IF S = {} THEN <<>>
  ELSE LET m == CHOOSE p \in S : \A q \in S \ {p} : PairBefore(nodes, p, q)
       IN <<m>> \o SortPairs(nodes, S \ {m})

MaxEdgeDist == 400
WithinRange(nodes, p) ==
  Dist2(nodes[p[1]], nodes[p[2]]) < MaxEdgeDist * MaxEdgeDist

ExtraEdgesNeeded(nodes) == Len(nodes) \div 2    \* Math.floor(nodes.length * 0.5)

\* Kruskal with the DisjointSet: comp maps a node to its component's root.
RECURSIVE KruskalFrom(_, _, _, _)
KruskalFrom(sorted, k, comp, edges) ==
  IF k > Len(sorted) THEN edges
  ELSE LET s == sorted[k][1]
           t == sorted[k][2]
       IN IF comp[s] # comp[t]
          THEN KruskalFrom(sorted, k + 1,
                 [n \in DOMAIN comp |-> IF comp[n] = comp[s] THEN comp[t] ELSE comp[n]],
                 Append(edges, [source |-> s, target |-> t, type |-> "PERMANENT"]))
          ELSE KruskalFrom(sorted, k + 1, comp, edges)

RECURSIVE AddExtraFrom(_, _, _, _, _)
AddExtraFrom(nodes, sorted, k, extraAdded, edges) ==
  IF k > Len(sorted) \/ extraAdded >= ExtraEdgesNeeded(nodes) THEN edges
  ELSE LET p == sorted[k]
       IN IF ~isConnected(edges, p[1], p[2]) /\ WithinRange(nodes, p)
          THEN AddExtraFrom(nodes, sorted, k + 1, extraAdded + 1,
                 Append(edges, [source |-> p[1], target |-> p[2], type |-> "RANDOM"]))
          ELSE AddExtraFrom(nodes, sorted, k + 1, extraAdded, edges)

generateEdgesForNodes(nodes) ==
  LET sorted == SortPairs(nodes, PotentialEdges(nodes))
      mst == KruskalFrom(sorted, 1, [n \in NodeIds(nodes) |-> n], <<>>)
  IN AddExtraFrom(nodes, sorted, 1, 0, mst)

\* regenerateTopology.  The shuffle makes the order of the candidates
\* arbitrary, so the RANDOM edges added are any ordered choice of distinct
\* candidates that are in range and not already joined by a kept edge, as
\* many as the quota allows: `picks' is that choice.
PermanentEdges(edges) == SelectSeq(edges, LAMBDA e : e.type = "PERMANENT")

\* the candidates without the look at the PERMANENT edges (a faulty
\* regeneration: a RANDOM edge may double a PERMANENT one)
CandidatesInRange(nodes, edges) ==
  {p \in PotentialEdges(nodes) : WithinRange(nodes, p)}

FreeCandidates(nodes, edges) ==
  {p \in PotentialEdges(nodes) :
     WithinRange(nodes, p) /\ ~isConnected(PermanentEdges(edges), p[1], p[2])}

RegenPicks(nodes, edges) ==
  LET free == FreeCandidates(nodes, edges)
      k == Min(ExtraEdgesNeeded(nodes), Cardinality(free))
  IN {s \in [1..k -> free] : \A a, b \in 1..k : a # b => s[a] # s[b]}

\* the regeneration that starts from the whole list (a faulty regeneration:
\* the RANDOM edges pile up)
RegenerateKeepingRandom(nodes, currentEdges, picks) ==
  currentEdges \o
    [k \in 1..Len(picks) |->
       [source |-> picks[k][1], target |-> picks[k][2], type |-> "RANDOM"]]

regenerateTopology(nodes, currentEdges, picks) ==
  PermanentEdges(currentEdges) \o
    [k \in 1..Len(picks) |->
       [source |-> picks[k][1], target |-> picks[k][2], type |-> "RANDOM"]]

----------------------------------------------------------------------------
(* advanceGameState (services/gamePhysics.ts), phase by phase              *)

\* 1. Ocean current: the topology is regenerated when the shift is due.
TopologyDue(ctx) == ctx.gameState # "TUTORIAL" /\ ctx.now >= ctx.nextEventTime

\* Sever invalid connections: the payloads / transfers kept by the filter.
\* the filter that keeps everything (a faulty severance: transfers outlive their edge)
KeepAll(items, edges) == items

SeverFilter(items, edges) ==
  SelectSeq(items, LAMBDA it : isConnected(edges, it.sourceId, it.targetId))

\* 2. Node growth and ink spreading, for one node.
SpreadInk(n) ==
  IF n.captureProgress < CaptureFull
  THEN [n EXCEPT !.captureProgress = Min(CaptureFull, @ + InkSpreadSpeed)]
  ELSE n

\* the increment without the HIVE bonus (a faulty growth: a HIVE grows like
\* any other node)
GrowthWithoutBonus(n) == calculateGrowthIncrement(n.count)

GrowthOf(n) ==
  LET inc == calculateGrowthIncrement(n.count)
  IN IF n.type = "HIVE" THEN (inc * 16) \div 10 ELSE inc    \* growthIncrement *= 1.6

\* growth without the owner test (a faulty growth: neutral nodes grow too)
GrowAnyNode(n) ==
  LET ink == SpreadInk(n)
      newAccumulator == ink.growthAccumulator + GrowthOf(ink)
  IN IF newAccumulator >= AccScale
     THEN [ink EXCEPT !.count = @ + (newAccumulator \div AccScale) * CountScale,
                      !.growthAccumulator = newAccumulator % AccScale]
     ELSE [ink EXCEPT !.growthAccumulator = newAccumulator]

\* growth as the older copy of advanceGameState has it (gamePhysics.ts
\* 464-485, which imports constants that no longer exist): only below the
\* capacity, and never past it
GrowNodeCapped(n) ==
  IF n.owner # GRAY /\ n.count < n.capacity * CountScale
  THEN LET newAccumulator == n.growthAccumulator + calculateGrowthIncrement(n.count)
       IN IF newAccumulator >= AccScale
          THEN [n EXCEPT !.count = Min(n.capacity * CountScale,
                                       @ + (newAccumulator \div AccScale) * CountScale),
                         !.growthAccumulator = newAccumulator % AccScale]
          ELSE [n EXCEPT !.growthAccumulator = newAccumulator]
  ELSE n

GrowNode(n) ==
  LET ink == SpreadInk(n)
  IN IF ink.owner # GRAY
     THEN LET newAccumulator == ink.growthAccumulator + GrowthOf(ink)
          IN IF newAccumulator >= AccScale
             THEN LET wholeNumberGrowth == newAccumulator \div AccScale
                  IN [ink EXCEPT !.count = @ + wholeNumberGrowth * CountScale,
                                 !.growthAccumulator = newAccumulator - wholeNumberGrowth * AccScale]
             ELSE [ink EXCEPT !.growthAccumulator = newAccumulator]
     ELSE ink

\* the flag raised by the ink alone (a faulty flag: a unit of growth goes
\* unreported)
InkChanges(n) == n.captureProgress < CaptureFull

GrowthChanges(n) ==
  \/ n.captureProgress < CaptureFull
  \/ n.owner # GRAY /\ GrowNode(n).count # n.count

\* 3. Unit spawning from one active transfer.  st carries newNodes,
\* newPayloads, survivingTransfers, the id counter and hasChanges; st.spawned
\* and st.seen report which transfers spawned and the source count each valid
\* transfer read.
\* the quota test that still passes at the goal (a faulty quota: one unit
\* too many)
HasQuotaInclusive(t) == t.totalToSend = Infinity \/ t.sentCount <= t.totalToSend

HasQuota(t) == t.totalToSend = Infinity \/ t.sentCount < t.totalToSend

progressIncrement(nodes, t, sourceCount) ==
  LET dist == Hypot(nodes[t.sourceId], nodes[t.targetId])
      speedPixels == calculateUnitSpeed(sourceCount)     \* in 1/1000 pixel
  IN IF dist > 0 THEN (speedPixels * (ProgressScale \div 1000)) \div dist
                 ELSE ProgressScale \div 5               \* 0.2

\* the spawn test without its last conjunct (a faulty spawn: it can overdraw the source)
CanSpawnIgnoringCount(t, sourceNode, now) ==
  /\ now - t.lastSpawnTime > calculateSpawnInterval(sourceNode.count)
  /\ HasQuota(t)

\* the spawn test without the interval (a faulty spawn: a unit every tick)
CanSpawnIgnoringInterval(t, sourceNode, now) ==
  /\ HasQuota(t)
  /\ sourceNode.count >= CountScale

CanSpawn(t, sourceNode, now) ==
  /\ now - t.lastSpawnTime > calculateSpawnInterval(sourceNode.count)
  /\ HasQuota(t)
  /\ sourceNode.count >= CountScale                      \* sourceNode.count >= 1

\* Stop transfer if ownership changed
\* the ownership check that never fires (a faulty check: a captured node keeps
\* feeding its old owner's stream)
OwnerIgnored(t, sourceNode) == FALSE

OwnershipChanged(t, sourceNode) == sourceNode.owner # t.owner

SpawnStep(t, now, st) ==
  IF t.sourceId \notin NodeIds(st.nodes) THEN st
  ELSE
    LET sourceNode == st.nodes[t.sourceId]
    IN IF OwnershipChanged(t, sourceNode) THEN st
       ELSE
         LET spawn == CanSpawn(t, sourceNode, now)
             t2 == IF spawn THEN [t EXCEPT !.sentCount = @ + 1, !.lastSpawnTime = now]
                            ELSE t
             stillActive == HasQuota(t2) /\ sourceNode.count >= 0
             p == [id |-> st.idgen + 1, sourceId |-> t.sourceId, targetId |-> t.targetId,
                   owner |-> t.owner, count |-> CountScale, progress |-> 0,
                   speed |-> progressIncrement(st.nodes, t, sourceNode.count)]
         IN [nodes |-> IF spawn
                       THEN [st.nodes EXCEPT ![t.sourceId].count = sourceNode.count - CountScale]
                       ELSE st.nodes,
             payloads |-> IF spawn THEN Append(st.payloads, p) ELSE st.payloads,
             transfers |-> IF stillActive THEN Append(st.transfers, t2) ELSE st.transfers,
             idgen |-> IF spawn THEN st.idgen + 1 ELSE st.idgen,
             spawned |-> IF spawn THEN st.spawned \cup {t.id} ELSE st.spawned,
             seen |-> Append(st.seen, [id |-> t.id, count |-> sourceNode.count]),
             hasChanges |-> st.hasChanges \/ spawn]

RECURSIVE SpawnFrom(_, _, _, _)
SpawnFrom(transfers, k, now, st) ==
  IF k > Len(transfers) THEN st
  ELSE SpawnFrom(transfers, k + 1, now, SpawnStep(transfers[k], now, st))

\* 4. The AI's moves become transfers (newTransfers.push).
\* the AI that also plays in the tutorial (a faulty gate)
AIEnabledAlways(ctx) == TRUE

AIEnabled(ctx) == ctx.gameState # "TUTORIAL"
AIDue(ctx) ==
  AIEnabled(ctx) /\ ctx.now - ctx.lastAITime > DIFFICULTY_SETTINGS[ctx.difficulty].actionInterval

ApplyMove(move, st) ==
  IF move.from \in NodeIds(st.nodes) /\ move.to \in NodeIds(st.nodes)
     /\ st.nodes[move.from].count > 2 * CountScale
  THEN [st EXCEPT
          !.transfers = Append(@,
             [id |-> st.idgen + 1, sourceId |-> move.from, targetId |-> move.to,
              owner |-> st.nodes[move.from].owner,
              totalToSend |-> HalfOf(st.nodes[move.from].count),
              sentCount |-> 0, lastSpawnTime |-> 0]),
          !.idgen = @ + 1]
  ELSE st

RECURSIVE ApplyMoves(_, _, _)
ApplyMoves(moves, k, st) ==
  IF k > Len(moves) THEN st
  ELSE ApplyMoves(moves, k + 1, ApplyMove(moves[k], st))

\* 5. Payload movement and head-on collisions.
\* the movement at half the speed (a faulty movement: a payload outlives
\* its travel time)
MovePayloadSlowly(p) == [p EXCEPT !.progress = @ + p.speed \div 2]

MovePayload(p) == [p EXCEPT !.progress = @ + p.speed]

EdgeKey(p) == {p.sourceId, p.targetId}

CollisionRadius == 15
\* distProgress < collisionThreshold, with collisionThreshold =
\* pathLength > 0 ? 15 / pathLength : 0.05 (compared without dividing)
WithinThreshold(nodes, p1, p2) ==
  LET pathLength == Hypot(nodes[p1.sourceId], nodes[p1.targetId])
      distProgress == Abs(p1.progress - (ProgressScale - p2.progress))
  IN IF pathLength > 0
     THEN distProgress * pathLength < CollisionRadius * ProgressScale
     ELSE distProgress * 20 < ProgressScale

\* the collision test without the owner check (a faulty collision: allies annihilate too)
CollideAnyOwner(nodes, p1, p2) ==
  /\ p1.sourceId # p2.sourceId
  /\ WithinThreshold(nodes, p1, p2)

Collide(nodes, p1, p2) ==
  /\ p1.owner # p2.owner
  /\ p1.sourceId # p2.sourceId              \* movingOpposite
  /\ WithinThreshold(nodes, p1, p2)

\* The loops over a group: i and j are positions in newPayloads, and only
\* payloads with the same edge key are in one group.  `removed' is
\* payloadsToRemove, as a set of positions.
RECURSIVE CollideInner(_, _, _, _, _)
CollideInner(nodes, ps, i, j, removed) ==
  IF j > Len(ps) THEN removed
  ELSE IF EdgeKey(ps[j]) # EdgeKey(ps[i]) \/ j \in removed
       THEN CollideInner(nodes, ps, i, j + 1, removed)
       ELSE IF Collide(nodes, ps[i], ps[j])
            THEN CollideInner(nodes, ps, i, j + 1, removed \cup {i, j})
            ELSE CollideInner(nodes, ps, i, j + 1, removed)

RECURSIVE CollideOuter(_, _, _, _)
CollideOuter(nodes, ps, i, removed) ==
  IF i > Len(ps) THEN removed
  ELSE IF i \in removed
       THEN CollideOuter(nodes, ps, i + 1, removed)
       ELSE CollideOuter(nodes, ps, i + 1, CollideInner(nodes, ps, i, i + 1, removed))

payloadsToRemove(nodes, ps) == CollideOuter(nodes, ps, 1, {})

\* 6. Arrival of one payload at a node in its latest state.
NodeState(n) ==
  [count |-> n.count, owner |-> n.owner, prevOwner |-> n.prevOwner,
   captureProgress |-> n.captureProgress, type |-> n.type]

\* the damage without the FORTRESS bonus (a faulty arrival: a FORTRESS takes full damage)
FullDamage(cur, p) == p.count

IncomingDamage(cur, p) ==
  IF cur.type = "FORTRESS" THEN p.count \div 2 ELSE p.count   \* incomingDamage * 0.5

\* the capture that leaves the ink where it was (a faulty arrival: a node
\* that changes hands shows no transition)
CaptureKeepingInk(cur, p) ==
  IF cur.owner = p.owner
  THEN [cur EXCEPT !.count = @ + p.count]
  ELSE LET result == cur.count - IncomingDamage(cur, p)
       IN IF result < 0
          THEN [count |-> Abs(result), owner |-> p.owner, prevOwner |-> cur.owner,
                captureProgress |-> cur.captureProgress, type |-> cur.type]
          ELSE [cur EXCEPT !.count = result]

\* a faulty arrival: a node that falls is left to nobody
CaptureToNeutral(cur, p) ==
  IF cur.owner = p.owner
  THEN [cur EXCEPT !.count = @ + p.count]
  ELSE LET result == cur.count - IncomingDamage(cur, p)
       IN IF result < 0
          THEN [count |-> Abs(result), owner |-> GRAY, prevOwner |-> cur.owner,
                captureProgress |-> 0, type |-> cur.type]
          ELSE [cur EXCEPT !.count = result]

ResolveArrival(cur, p) ==
  IF cur.owner = p.owner
  THEN [cur EXCEPT !.count = @ + p.count]                      \* reinforcement
  ELSE LET result == cur.count - IncomingDamage(cur, p)
       IN IF result < 0
          THEN [count |-> Abs(result), owner |-> p.owner, prevOwner |-> cur.owner,
                captureProgress |-> 0, type |-> cur.type]      \* captured
          ELSE [cur EXCEPT !.count = result]                   \* damaged

\* the lookup that always reads the node list (a faulty arrival: every
\* payload of a volley is resolved against the state before the volley)
StaleNodeState(nodes, nodeUpdates, id) == NodeState(nodes[id])

getLatestNodeState(nodes, nodeUpdates, id) ==
  IF id \in DOMAIN nodeUpdates THEN nodeUpdates[id] ELSE NodeState(nodes[id])

\* An event object is told from an equal one by `payload', the payload whose
\* arrival pushed it.
\* newPayloads.forEach over positions k; st carries nodeUpdates,
\* survivedPayloads, currentEvents, the ids of the payloads that arrived and
\* the nodes that were captured.
\* a faulty arrival: the payload that landed stays in the list
ArrivalStepKeeping(nodes, ps, removed, k, st) ==
  LET p == ps[k]
  IN IF k \in removed THEN st
     ELSE IF p.progress >= ProgressScale /\ p.targetId \in NodeIds(nodes)
          THEN LET currentState == getLatestNodeState(nodes, st.nodeUpdates, p.targetId)
                   upd == ResolveArrival(currentState, p)
               IN [st EXCEPT
                     !.nodeUpdates =
                        [id \in DOMAIN st.nodeUpdates \cup {p.targetId} |->
                           IF id = p.targetId THEN upd ELSE st.nodeUpdates[id]],
                     !.events = Append(@, [type |-> "IMPACT", targetId |-> p.targetId,
                                           color |-> p.owner, payload |-> p.id]),
                     !.arrived = Append(@, p.id),
                     !.captured = IF upd.owner # currentState.owner
                                  THEN @ \cup {p.targetId} ELSE @,
                     !.survived = Append(@, p)]
          ELSE [st EXCEPT !.survived = Append(@, p)]

ArrivalStep(nodes, ps, removed, k, st) ==
  LET p == ps[k]
  IN IF k \in removed THEN st
     ELSE IF p.progress >= ProgressScale
          THEN IF p.targetId \in NodeIds(nodes)
               THEN LET currentState == getLatestNodeState(nodes, st.nodeUpdates, p.targetId)
                        upd == ResolveArrival(currentState, p)
                    IN [st EXCEPT
                          !.nodeUpdates =
                             [id \in DOMAIN st.nodeUpdates \cup {p.targetId} |->
                                IF id = p.targetId THEN upd ELSE st.nodeUpdates[id]],
                          !.events = Append(@, [type |-> "IMPACT", targetId |-> p.targetId,
                                                color |-> p.owner, payload |-> p.id]),
                          !.arrived = Append(@, p.id),
                          !.captured = IF upd.owner # currentState.owner
                                       THEN @ \cup {p.targetId} ELSE @]
               ELSE st
          ELSE [st EXCEPT !.survived = Append(@, p)]

RECURSIVE ArrivalsFrom(_, _, _, _, _)
ArrivalsFrom(nodes, ps, removed, k, st) ==
  IF k > Len(ps) THEN st
  ELSE ArrivalsFrom(nodes, ps, removed, k + 1, ArrivalStep(nodes, ps, removed, k, st))

ApplyNodeUpdates(nodes, nodeUpdates) ==
  [id \in NodeIds(nodes) |->
     IF id \in DOMAIN nodeUpdates
     THEN [nodes[id] EXCEPT !.count = nodeUpdates[id].count,
                            !.owner = nodeUpdates[id].owner,
                            !.prevOwner = nodeUpdates[id].prevOwner,
                            !.captureProgress = nodeUpdates[id].captureProgress]
     ELSE nodes[id]]

\* Phases 1 to 3: the edges after the ocean current, and the state after
\* growth and spawning (tempWorld, which the AI reads).
BeforeAI(currentWorld, ctx, ids, picks) ==
  LET shift == TopologyDue(ctx)
      newEdges == IF shift
                  THEN regenerateTopology(currentWorld.nodes, currentWorld.edges, picks)
                  ELSE currentWorld.edges
      payloads1 == IF shift THEN SeverFilter(currentWorld.payloads, newEdges)
                            ELSE currentWorld.payloads
      transfers1 == IF shift THEN SeverFilter(currentWorld.transfers, newEdges)
                             ELSE currentWorld.transfers
      grown == [id \in NodeIds(currentWorld.nodes) |-> GrowNode(currentWorld.nodes[id])]
  IN [edges |-> newEdges,
      grown |-> grown,
      sp |-> SpawnFrom(transfers1, 1, ctx.now,
               [nodes |-> grown, payloads |-> payloads1, transfers |-> <<>>,
                idgen |-> ids, spawned |-> {}, seen |-> <<>>, hasChanges |-> FALSE])]

\* currentWorld as the caller finds it after the call.  newPayloads and
\* newTransfers are shallow copies, so they hold the objects of the input
\* world: p.progress += p.speed and t.sentCount++, t.lastSpawnTime = ctx.now
\* write to the objects that survived the severance.
InputAfterCall(currentWorld, ctx, pre) ==
  [currentWorld EXCEPT
     !.payloads =
        [k \in 1..Len(currentWorld.payloads) |->
           IF TopologyDue(ctx)
              /\ ~isConnected(pre.edges, currentWorld.payloads[k].sourceId,
                              currentWorld.payloads[k].targetId)
           THEN currentWorld.payloads[k]
           ELSE MovePayload(currentWorld.payloads[k])],
     !.transfers =
        [k \in 1..Len(currentWorld.transfers) |->
           IF currentWorld.transfers[k].id \in pre.sp.spawned
           THEN [currentWorld.transfers[k] EXCEPT !.sentCount = @ + 1,
                                                  !.lastSpawnTime = ctx.now]
           ELSE currentWorld.transfers[k]]]

\* Phases 5 and 6 and the result, given the payloads after movement and the
\* payloads removed by collision.
Resolve(currentWorld, ctx, rnd, pre, ai, moved, removed, arr) ==
  [world |-> [nodes |-> ApplyNodeUpdates(ai.nodes, arr.nodeUpdates),
              edges |-> pre.edges, payloads |-> arr.survived,
              transfers |-> ai.transfers, latestEvents |-> arr.events],
   lastAITime |-> IF AIDue(ctx) THEN ctx.now ELSE ctx.lastAITime,
   nextEventTime |-> IF TopologyDue(ctx) THEN ctx.now + OCEAN_CURRENT_INTERVAL_MS
                                         ELSE ctx.nextEventTime,
   hasChanges |-> \/ TopologyDue(ctx)
                  \/ \E id \in NodeIds(currentWorld.nodes) :
                        GrowthChanges(currentWorld.nodes[id])
                  \/ pre.sp.hasChanges
                  \/ (AIDue(ctx) /\ Len(rnd.moves) > 0)
                  \/ removed # {}
                  \/ \E k \in 1..Len(moved) :
                        k \notin removed /\ moved[k].progress >= ProgressScale,
   idgen |-> ai.idgen,
   shift |-> TopologyDue(ctx),
   aiRuns |-> AIDue(ctx),
   input |-> InputAfterCall(currentWorld, ctx, pre),
   afterGrowth |-> pre.grown,
   afterSpawn |-> pre.sp.nodes,
   spawned |-> pre.sp.spawned,
   seen |-> pre.sp.seen,
   moved |-> moved,
   removed |-> {moved[k].id : k \in removed},
   arrived |-> arr.arrived,
   captured |-> arr.captured]

\* the arrival phase that starts from the events of the input world (a
\* faulty tick: the event list accumulates)
ArriveKeepingEvents(currentWorld, ctx, rnd, pre, ai, moved, removed) ==
  Resolve(currentWorld, ctx, rnd, pre, ai, moved, removed,
          ArrivalsFrom(ai.nodes, moved, removed, 1,
            [nodeUpdates |-> << >>, survived |-> <<>>,
             events |-> currentWorld.latestEvents, arrived |-> <<>>,
             captured |-> {}]))

Arrive(currentWorld, ctx, rnd, pre, ai, moved, removed) ==
  Resolve(currentWorld, ctx, rnd, pre, ai, moved, removed,
          ArrivalsFrom(ai.nodes, moved, removed, 1,
            [nodeUpdates |-> << >>, survived |-> <<>>, events |-> <<>>,
             arrived |-> <<>>, captured |-> {}]))

MoveAndCollide(currentWorld, ctx, rnd, pre, ai, moved) ==
  Arrive(currentWorld, ctx, rnd, pre, ai, moved, payloadsToRemove(ai.nodes, moved))

AfterAI(currentWorld, ctx, rnd, pre, ai) ==
  MoveAndCollide(currentWorld, ctx, rnd, pre, ai,
                 [k \in 1..Len(ai.payloads) |-> MovePayload(ai.payloads[k])])

\* the tick with the AI ahead of the spawning (a faulty order: the transfers
\* the AI creates spawn in the tick that created them)
AIBeforeSpawn(currentWorld, ctx, rnd, pre) ==
  AfterAI(currentWorld, ctx, rnd, pre,
          IF AIDue(ctx)
          THEN LET ai == ApplyMoves(rnd.moves, 1, pre.sp)
               IN SpawnFrom(SubSeq(ai.transfers, Len(pre.sp.transfers) + 1,
                                   Len(ai.transfers)),
                            1, ctx.now, [ai EXCEPT !.transfers = pre.sp.transfers])
          ELSE pre.sp)

AfterSpawn(currentWorld, ctx, rnd, pre) ==
  AfterAI(currentWorld, ctx, rnd, pre,
          IF AIDue(ctx) THEN ApplyMoves(rnd.moves, 1, pre.sp) ELSE pre.sp)

\* The whole tick.  rnd holds the outcome of the random draws: rnd.picks the
\* regenerated RANDOM edges, rnd.moves the AI's moves.  Besides the
\* PhysicsResult the record reports what the tick did (input, afterGrowth,
\* afterSpawn, spawned, seen, moved, removed, arrived, captured), which the
\* properties
\* below read.
advanceGameState(currentWorld, ctx, ids, rnd) ==
  AfterSpawn(currentWorld, ctx, rnd, BeforeAI(currentWorld, ctx, ids, rnd.picks))
----------------------------------------------------------------------------
(* calculateAIMoves                                                        *)

ScorePerCount == ScoreScale \div CountScale     \* one unit of count, in score units

\* count / capacity > num / 10
SaturationAbove(n, num) == n.count * 10 > num * n.capacity * CountScale

Neighbors(nodes, edges, id) ==
  {t \in NodeIds(nodes) :
     \E k \in 1..Len(edges) :
        \/ (edges[k].source = id /\ edges[k].target = t)
        \/ (edges[k].target = id /\ edges[k].source = t)}

\* the score as the copy of calculateAIMoves in services/gameLogic.ts has it
\* (448-487): no node types, so a FORTRESS is weighed like any other node
BaseScoreUntyped(source, target) ==
  IF target.owner = GRAY
  THEN (100 * ScoreScale - target.count * ScorePerCount)
       + (IF SaturationAbove(source, 8) THEN 50 * ScoreScale ELSE 0)
  ELSE IF target.owner # source.owner
  THEN LET diff == source.count - target.count
       IN IF SaturationAbove(source, 9)
          THEN 100 * ScoreScale + (diff * ScorePerCount) \div 10
          ELSE IF diff > 0 THEN 50 * ScoreScale + diff * ScorePerCount
               ELSE IF diff > 0 - 10 * CountScale THEN 0 - 20 * ScoreScale
                                                  ELSE 0 - 1000 * ScoreScale
  ELSE IF SaturationAbove(source, 8) /\ SaturationAbove(target, 8)
       THEN 0 - 200 * ScoreScale
       ELSE IF target.count < 15 * CountScale
            THEN 50 * ScoreScale + (15 * CountScale - target.count) * ScorePerCount
            ELSE IF target.count * 2 < target.capacity * CountScale
                 THEN 10 * ScoreScale
                 ELSE 0 - 50 * ScoreScale

\* the score that weighs every target by the difference of the counts alone
\* (a faulty score: a losing fight is not avoided)
BaseScoreFearless(source, target) ==
  50 * ScoreScale + (source.count - target.count) * ScorePerCount

\* the score of a target before the jitter is added
BaseScore(source, target) ==
  IF target.owner = GRAY
  THEN (100 * ScoreScale - target.count * ScorePerCount)
       + (IF SaturationAbove(source, 8) THEN 50 * ScoreScale ELSE 0)
       + (IF target.type = "HIVE" THEN 40 * ScoreScale ELSE 0)
       + (IF target.type = "FORTRESS" THEN 30 * ScoreScale ELSE 0)
  ELSE IF target.owner # source.owner
  THEN LET diff == source.count - target.count
       IN IF target.type = "FORTRESS"
          THEN LET effectiveDiff == source.count - target.count * 2
               IN IF effectiveDiff > 0 THEN 30 * ScoreScale + effectiveDiff * ScorePerCount
                                       ELSE 0 - 500 * ScoreScale
          ELSE IF SaturationAbove(source, 9)
               THEN 100 * ScoreScale + (diff * ScorePerCount) \div 10
               ELSE IF diff > 0 THEN 50 * ScoreScale + diff * ScorePerCount
                    ELSE IF diff > 0 - 10 * CountScale THEN 0 - 20 * ScoreScale
                                                       ELSE 0 - 1000 * ScoreScale
  ELSE IF SaturationAbove(source, 8) /\ SaturationAbove(target, 8)
       THEN 0 - 200 * ScoreScale
       ELSE IF target.count < 15 * CountScale
            THEN 50 * ScoreScale + (15 * CountScale - target.count) * ScorePerCount
            ELSE IF target.count * 2 < target.capacity * CountScale
                 THEN 10 * ScoreScale
                 ELSE 0 - 50 * ScoreScale

\* Math.random() * 20 lies in [0, 20): the values tried, in score units.
JitterValues == {0, 10 * ScoreScale, 20 * ScoreScale - 1}

\* neighbors.forEach: the best target and its score, the first of equal scores
RECURSIVE BestFrom(_, _, _, _, _)
BestFrom(nodes, source, order, jitter, best) ==
  IF order = <<>> THEN best
  ELSE LET t == Head(order)
           score == BaseScore(source, nodes[t]) + jitter[t]
       IN BestFrom(nodes, source, Tail(order), jitter,
                   IF best.target = 0 \/ score > best.score
                   THEN [target |-> t, score |-> score] ELSE best)

RECURSIVE Ascending(_)
Ascending(S) ==
  IF S = {} THEN <<>>
  ELSE LET m == CHOOSE x \in S : \A y \in S : x <= y
       IN <<m>> \o Ascending(S \ {m})

\* the threshold of a saturated source for every source (a faulty threshold)
ActionThresholdLow(source) == 10 * ScoreScale

ActionThreshold(source) ==
  IF SaturationAbove(source, 9) THEN 10 * ScoreScale ELSE 30 * ScoreScale

\* the decision without the strength check (a faulty AI: a node acts
\* however few units it holds)
SourceOutcomesAnyCount(w, config, id) ==
  LET source == w.nodes[id]
      nb == Neighbors(w.nodes, w.edges, id)
      hesitate == IF config.hesitationChance > 0 THEN {0} ELSE {}
      decided ==
        IF nb = {} THEN {0}
        ELSE UNION {LET best == BestFrom(w.nodes, source, Ascending(nb), jitter,
                                        [target |-> 0, score |-> 0])
                    IN IF best.score > ActionThreshold(source)
                       THEN IF best.score > 50 * ScoreScale
                            THEN {best.target}
                            ELSE {best.target, 0}
                       ELSE {0}
                    : jitter \in [nb -> JitterValues]}
  IN hesitate \cup decided

\* What one acting node can do: the targets it can move to, and 0 for no move.
SourceOutcomes(w, config, id) ==
  LET source == w.nodes[id]
      nb == Neighbors(w.nodes, w.edges, id)
      hesitate == IF config.hesitationChance > 0 THEN {0} ELSE {}
      decided ==
        IF source.count < 10 * CountScale \/ nb = {} THEN {0}
        ELSE UNION {LET best == BestFrom(w.nodes, source, Ascending(nb), jitter,
                                        [target |-> 0, score |-> 0])
                    IN IF best.score > ActionThreshold(source)
                       THEN IF best.score > 50 * ScoreScale
                            THEN {best.target}
                            ELSE {best.target, 0}     \* Math.random() > 0.3
                       ELSE {0}
                    : jitter \in [nb -> JitterValues]}
  IN hesitate \cup decided

RECURSIVE MoveSeqs(_, _, _, _)
MoveSeqs(w, config, acting, k) ==
  IF k > Len(acting) THEN {<<>>}
  ELSE {IF o = 0 THEN rest ELSE <<[from |-> acting[k], to |-> o]>> \o rest :
          o \in SourceOutcomes(w, config, acting[k]),
          rest \in MoveSeqs(w, config, acting, k + 1)}

\* the moves without the limit of attention (a faulty AI: every AI node acts
\* in every run)
calculateAIMovesUnlimited(w, player, level, autoPilot) ==
  LET config == DIFFICULTY_SETTINGS[level]
      aiNodes == {id \in NodeIds(w.nodes) :
                    /\ w.nodes[id].owner # GRAY
                    /\ (autoPilot \/ w.nodes[id].owner # player)
                    /\ w.nodes[id].owner \in PlayableSet}
      m == Cardinality(aiNodes)
      actingOrders == {s \in [1..m -> aiNodes] : \A a, b \in 1..m : a # b => s[a] # s[b]}
  IN UNION {MoveSeqs(w, config, acting, 1) : acting \in actingOrders}

\* The move lists calculateAIMoves can return.
calculateAIMoves(w, player, level, autoPilot) ==
  LET config == DIFFICULTY_SETTINGS[level]
      aiNodes == {id \in NodeIds(w.nodes) :
                    /\ w.nodes[id].owner # GRAY
                    /\ (autoPilot \/ w.nodes[id].owner # player)
                    /\ w.nodes[id].owner \in PlayableSet}
      m == IF config.maxActionsPerTick = Infinity THEN Cardinality(aiNodes)
           ELSE Min(config.maxActionsPerTick, Cardinality(aiNodes))
      actingOrders == {s \in [1..m -> aiNodes] : \A a, b \in 1..m : a # b => s[a] # s[b]}
  IN UNION {MoveSeqs(w, config, acting, 1) : acting \in actingOrders}

----------------------------------------------------------------------------
(* checkWinCondition (services/gamePhysics.ts)                             *)

CountWhere(seq, Test(_)) == Cardinality({k \in 1..Len(seq) : Test(seq[k])})

\* the check that leaves the transfers out of the assets (a faulty check: a
\* player with a stream still running is declared defeated)
WinIgnoringTransfers(w, player) ==
  LET playerNodes == CountWhere(w.nodes, LAMBDA n : n.owner = player)
      enemyNodes == CountWhere(w.nodes, LAMBDA n : n.owner # player /\ n.owner # GRAY)
      playerAssets == playerNodes + CountWhere(w.payloads, LAMBDA p : p.owner = player)
  IN IF enemyNodes = 0 /\ playerNodes > 0 THEN [winner |-> player, isGameOver |-> TRUE]
     ELSE IF playerAssets = 0 THEN [winner |-> "none", isGameOver |-> TRUE]
     ELSE [winner |-> "none", isGameOver |-> FALSE]

checkWinCondition(w, player) ==
  LET playerNodes == CountWhere(w.nodes, LAMBDA n : n.owner = player)
      enemyNodes == CountWhere(w.nodes, LAMBDA n : n.owner # player /\ n.owner # GRAY)
      playerAssets == playerNodes
                      + CountWhere(w.payloads, LAMBDA p : p.owner = player)
                      + CountWhere(w.transfers, LAMBDA t : t.owner = player)
  IN IF enemyNodes = 0 /\ playerNodes > 0 THEN [winner |-> player, isGameOver |-> TRUE]
     ELSE IF playerAssets = 0 THEN [winner |-> "none", isGameOver |-> TRUE]
     ELSE [winner |-> "none", isGameOver |-> FALSE]

----------------------------------------------------------------------------
(* handleAttack (hooks/useGameEngine.ts)                                   *)

\* TUTORIAL_STEPS[step].requiredAction (data/tutorialSteps.ts); step ids 0..8
TUTORIAL_STEPS ==
  <<"NEXT", "SELECT", "ATTACK", "CAPTURE", "NEXT", "NEXT", "NEXT", "STREAM", "WIN">>

\* the tutorial map lists its story nodes first
TutorialPlayer == 1
TutorialNeutral == 2
TutorialEnemy == 3

\* world.transfers.findIndex(t => t.sourceId === fromId && t.targetId === toId)
existingTransferIndex(transfers, fromId, toId) ==
  LET hits == {k \in 1..Len(transfers) :
                 transfers[k].sourceId = fromId /\ transfers[k].targetId = toId}
  IN IF hits = {} THEN 0 ELSE CHOOSE k \in hits : \A j \in hits : k <= j

\* the merge that replaces the goal instead of adding to it (a faulty
\* merge: the earlier order is lost)
ReplacedTotal(existing, isContinuous, amountToSend) ==
  IF isContinuous THEN Infinity ELSE amountToSend

MergedTotal(existing, isContinuous, amountToSend) ==
  IF isContinuous THEN Infinity
  ELSE IF existing.totalToSend # Infinity THEN existing.totalToSend + amountToSend
       ELSE existing.totalToSend

\* The part of handleAttack that reads and writes worldRef.current:
\* the transfers afterwards and the id counter.
AttackTransfers(w, player, fromId, toId, isContinuous, ids) ==
  LET unchanged == [transfers |-> w.transfers, idgen |-> ids]
  IN IF fromId \notin NodeIds(w.nodes) \/ toId \notin NodeIds(w.nodes) THEN unchanged
     ELSE LET source == w.nodes[fromId]
              amountToSend == IF isContinuous THEN Infinity ELSE HalfOf(source.count)
              idx == existingTransferIndex(w.transfers, fromId, toId)
          IN IF source.owner # player THEN unchanged
             ELSE IF ~isContinuous /\ amountToSend < 1 THEN unchanged
             ELSE IF idx # 0
                  THEN [transfers |->
                          [w.transfers EXCEPT ![idx].totalToSend =
                             MergedTotal(w.transfers[idx], isContinuous, amountToSend)],
                        idgen |-> ids]
                  ELSE [transfers |->
                          Append(w.transfers,
                            [id |-> ids + 1, sourceId |-> fromId, targetId |-> toId,
                             owner |-> source.owner, totalToSend |-> amountToSend,
                             sentCount |-> 0, lastSpawnTime |-> 0]),
                        idgen |-> ids + 1]

\* The tutorial checks at the head of handleAttack.  step is the tutorialStep
\* the callback closed over.
TutorialBlocks(state, step, fromId) ==
  state = "TUTORIAL" /\ TUTORIAL_STEPS[step + 1] = "SELECT" /\ fromId # TutorialPlayer

\* the setTutorialStep calls of handleAttack: the new step, or -1 for none
TutorialStepSet(state, step, fromId, toId, isContinuous) ==
  IF state # "TUTORIAL" THEN -1
  ELSE IF step = 7 /\ isContinuous THEN 8
  ELSE IF step = 2 /\ fromId = TutorialPlayer /\ toId = TutorialNeutral THEN 3
  ELSE -1

\* handleAttack: st carries worldRef.current, the id counter, the pending
\* tutorial step, the commands asked for so far (st.asked) and those of them
\* that got past the phase and tutorial checks (st.calls, each with the world
\* it saw and the transfers it left).
\* handleAttack without its first line (a faulty handler: commands are taken
\* in every phase)
handleAttackAnyPhase(st, state, step, player, fromId, toId, isContinuous) ==
  LET asked == Append(st.asked, [fromId |-> fromId, toId |-> toId,
                                 isContinuous |-> isContinuous])
      r == AttackTransfers(st.world, player, fromId, toId, isContinuous, st.idgen)
      set == TutorialStepSet(state, step, fromId, toId, isContinuous)
  IN IF TutorialBlocks(state, step, fromId) THEN [st EXCEPT !.asked = asked]
     ELSE [world |-> [st.world EXCEPT !.transfers = r.transfers],
           idgen |-> r.idgen,
           tutorialStep |-> IF set = -1 THEN st.tutorialStep ELSE set,
           asked |-> asked,
           calls |-> Append(st.calls,
                       [fromId |-> fromId, toId |-> toId, isContinuous |-> isContinuous,
                        nodes |-> st.world.nodes, edges |-> st.world.edges,
                        before |-> st.world.transfers, after |-> r.transfers])]

handleAttack(st, state, step, player, fromId, toId, isContinuous) ==
  LET asked == Append(st.asked, [fromId |-> fromId, toId |-> toId,
                                 isContinuous |-> isContinuous])
  IN
  IF state # "PLAYING" /\ state # "TUTORIAL" THEN [st EXCEPT !.asked = asked]
  ELSE IF TutorialBlocks(state, step, fromId) THEN [st EXCEPT !.asked = asked]
  ELSE LET r == AttackTransfers(st.world, player, fromId, toId, isContinuous, st.idgen)
           set == TutorialStepSet(state, step, fromId, toId, isContinuous)
       IN [world |-> [st.world EXCEPT !.transfers = r.transfers],
           idgen |-> r.idgen,
           tutorialStep |-> IF set = -1 THEN st.tutorialStep ELSE set,
           asked |-> asked,
           calls |-> Append(st.calls,
                       [fromId |-> fromId, toId |-> toId, isContinuous |-> isContinuous,
                        nodes |-> st.world.nodes, edges |-> st.world.edges,
                        before |-> st.world.transfers, after |-> r.transfers])]

----------------------------------------------------------------------------
(* The engine hook and the GameMap handlers as actions                     *)

\* budgets that keep the state space finite
MaxTicks == 5
MaxGestures == 1
MaxPauses == 1
MaxPath == 3

\* how long after it became due a frame runs the tick (ms)
FrameDelays == {0}
\* how long after the last clock reading the pause button is pressed (ms)
PauseOffsets == {20}
\* how long a pause lasts (ms)
PauseDurations == {400, 70000}

\* what the GameMap reads of the world prop: the published snapshot
Published(w) == [nodes |-> w.nodes, edges |-> w.edges, latestEvents |-> w.latestEvents]

Spend(what) == [steps EXCEPT ![what] = @ + 1]

\* checkTutorialConditions
TutorialStepAfterTick(step, w) ==
  IF step = 3 /\ w.nodes[TutorialNeutral].owner = "BLUE" THEN 4 ELSE step

\* the tutorial won at whatever step tutorial-enemy falls (a faulty variant)
TutorialWonAtAnyStep(step, w) == w.nodes[TutorialEnemy].owner = "BLUE"

TutorialWon(step, w) == step = 8 /\ w.nodes[TutorialEnemy].owner = "BLUE"

\* tempWorld, which the AI reads
TempWorld(pre) ==
  [nodes |-> pre.sp.nodes, edges |-> pre.edges, payloads |-> pre.sp.payloads,
   transfers |-> pre.sp.transfers, latestEvents |-> <<>>]

PhysicsContext(t) ==
  [now |-> t, lastTickTime |-> lastTickTime, lastAITime |-> lastAITime,
   nextEventTime |-> nextEventTime, playerColor |-> playerColor,
   gameState |-> gameState, difficulty |-> difficulty,
   isPlayerAutoPilot |-> isPlayerAutoPilot, tutorialStep |-> tutorialStep]

AIDraws(ctx, picks) ==
  IF AIDue(ctx)
  THEN calculateAIMoves(TempWorld(BeforeAI(world, ctx, idgen, picks)), playerColor,
                        difficulty, isPlayerAutoPilot)
  ELSE {<<>>}

\* how many ticks ago node id was last captured, counting the tick that just
\* ran as 0: -1 when no capture was seen in the unbroken run of ticks that
\* ends with it
TicksSinceCapture(id, captured) ==
  IF id \in captured THEN 0
  ELSE IF last.op = "tick" /\ last.sinceCapture[id] >= 0 THEN last.sinceCapture[id] + 1
  ELSE -1

\* what gameLoop stores after the physics update r
StoreTick(ctx, moves, r, status) ==
  /\ world' = r.world
  /\ dateNow' = ctx.now
  /\ lastTickTime' = ctx.now
  /\ lastAITime' = r.lastAITime
  /\ nextEventTime' = r.nextEventTime
  /\ idgen' = r.idgen
  /\ renderWorld' = IF r.hasChanges THEN Published(r.world) ELSE renderWorld
  /\ IF gameState = "TUTORIAL"
     THEN /\ tutorialStep' = TutorialStepAfterTick(tutorialStep, r.world)
          /\ gameState' = IF TutorialWon(tutorialStep, r.world)
                          THEN "VICTORY" ELSE gameState
          /\ winner' = IF TutorialWon(tutorialStep, r.world) THEN "BLUE" ELSE winner
     ELSE /\ tutorialStep' = tutorialStep
          /\ gameState' = IF ~status.isGameOver THEN gameState
                          ELSE IF status.winner # "none" THEN "VICTORY"
                          ELSE "DEFEAT"
          /\ winner' = IF status.isGameOver THEN status.winner ELSE winner
  /\ last' = [op |-> "tick", ctx |-> ctx, before |-> world, moves |-> moves,
              shift |-> r.shift, aiRuns |-> r.aiRuns, hasChanges |-> r.hasChanges,
              status |-> status, input |-> r.input, afterGrowth |-> r.afterGrowth,
              afterSpawn |-> r.afterSpawn, spawned |-> r.spawned, seen |-> r.seen,
              moved |-> r.moved, removed |-> r.removed, arrived |-> r.arrived,
              captured |-> r.captured,
              sinceCapture |-> [id \in NodeIds(r.world.nodes) |->
                                  TicksSinceCapture(id, r.captured)]]

\* gameLoop past its two early returns, for a frame at time now: the physics
\* update and what is stored after it
TickAt(now) ==
  \E ctx \in {PhysicsContext(now)} :
    \E picks \in (IF TopologyDue(ctx) THEN RegenPicks(world.nodes, world.edges)
                                      ELSE {<<>>}) :
      \E moves \in AIDraws(ctx, picks) :
        \E r \in {advanceGameState(world, ctx, idgen,
                                   [picks |-> picks, moves |-> moves])} :
          StoreTick(ctx, moves, r, checkWinCondition(r.world, playerColor))

\* gameLoop, for a frame on which the tick is due
Tick ==
  /\ gameState \in {"PLAYING", "TUTORIAL"}
  /\ steps.ticks < MaxTicks
  /\ \E delay \in FrameDelays :
       TickAt(Max(dateNow, lastTickTime + TICK_RATE_MS) + delay)
  /\ steps' = Spend("ticks")
  /\ UNCHANGED <<playerColor, difficulty, isPlayerAutoPilot, pauseStartTime,
                 selectedNodeId, dragPath>>

\* togglePause while PLAYING
Pause ==
  /\ gameState = "PLAYING"
  /\ steps.pauses < MaxPauses
  /\ \E e \in PauseOffsets :
       /\ dateNow' = dateNow + e
       /\ pauseStartTime' = dateNow + e
  /\ gameState' = "PAUSED"
  /\ steps' = Spend("pauses")
  /\ last' = [op |-> "pause"]
  /\ UNCHANGED <<world, renderWorld, winner, tutorialStep, playerColor, difficulty,
                 isPlayerAutoPilot, lastTickTime, lastAITime, nextEventTime,
                 selectedNodeId, dragPath, idgen>>

\* a resume that leaves the spawn timers alone (a faulty resume: the streams dump the paused time)
KeepSpawnTime(t, duration) == t

ShiftTransfer(t, duration) == [t EXCEPT !.lastSpawnTime = @ + duration]

\* togglePause while PAUSED
Resume ==
  /\ gameState = "PAUSED"
  /\ \E d \in PauseDurations :
       LET t == dateNow + d
           duration == t - pauseStartTime
           shifted == [world EXCEPT !.transfers =
                         [k \in 1..Len(world.transfers) |->
                            ShiftTransfer(world.transfers[k], duration)]]
       IN /\ dateNow' = t
          /\ lastTickTime' = lastTickTime + duration
          /\ lastAITime' = lastAITime + duration
          /\ nextEventTime' = nextEventTime + duration
          /\ world' = shifted
          /\ renderWorld' = Published(shifted)
          /\ last' = [op |-> "resume", duration |-> duration, before |-> world,
                      lastTickTime |-> lastTickTime, lastAITime |-> lastAITime,
                      nextEventTime |-> nextEventTime, pausedAt |-> pauseStartTime]
  /\ gameState' = "PLAYING"
  /\ UNCHANGED <<winner, tutorialStep, playerColor, difficulty, isPlayerAutoPilot,
                 pauseStartTime, selectedNodeId, dragPath, idgen, steps>>

\* --- GameMap, the component with drag paths ---
\* The handlers read the world prop (renderWorld); onAttack is handleAttack.

NoCalls == [world |-> world, idgen |-> idgen, tutorialStep |-> tutorialStep,
            asked |-> <<>>, calls |-> <<>>]

\* what a handler that called onAttack leaves in the engine
Commit(st) ==
  /\ world' = st.world
  /\ idgen' = st.idgen
  /\ tutorialStep' = st.tutorialStep
  /\ last' = [op |-> "attack", asked |-> st.asked, calls |-> st.calls,
              published |-> renderWorld]

\* a press on a node begins a gesture
handleNodeMouseDown(n) ==
  /\ steps.gestures < MaxGestures
  /\ renderWorld.nodes[n].owner = playerColor
  /\ dragPath' = <<n>>
  /\ steps' = Spend("gestures")
  /\ last' = [op |-> "mousedown"]
  /\ UNCHANGED <<world, renderWorld, gameState, winner, tutorialStep, playerColor,
                 difficulty, isPlayerAutoPilot, dateNow, lastTickTime, lastAITime,
                 nextEventTime, pauseStartTime, selectedNodeId, idgen>>

handleNodeMouseEnter(n) ==
  /\ dragPath # <<>>
  /\ LET len == Len(dragPath)
         lastId == dragPath[len]
     IN /\ n # lastId
        /\ IF len >= 2 /\ n = dragPath[len - 1]
           THEN dragPath' = SubSeq(dragPath, 1, len - 1)
           ELSE /\ renderWorld.nodes[lastId].owner = playerColor
                /\ isConnected(renderWorld.edges, lastId, n)
                /\ len < MaxPath
                /\ dragPath' = Append(dragPath, n)
  /\ last' = [op |-> "mouseenter"]
  /\ UNCHANGED <<world, renderWorld, gameState, winner, tutorialStep, playerColor,
                 difficulty, isPlayerAutoPilot, dateNow, lastTickTime, lastAITime,
                 nextEventTime, pauseStartTime, selectedNodeId, idgen, steps>>

\* onAttack for each consecutive pair of the drag path
RECURSIVE AttackChain(_, _, _, _)
AttackChain(path, i, isContinuous, st) ==
  IF i >= Len(path) THEN st
  ELSE AttackChain(path, i + 1, isContinuous,
         handleAttack(st, gameState, tutorialStep, playerColor,
                      path[i], path[i + 1], isContinuous))

handleSvgMouseUp(isContinuous) ==
  /\ dragPath # <<>>
  /\ Commit(AttackChain(dragPath, 1, isContinuous, NoCalls))
  /\ dragPath' = <<>>
  /\ selectedNodeId' = 0
  /\ UNCHANGED <<renderWorld, gameState, winner, playerColor, difficulty,
                 isPlayerAutoPilot, dateNow, lastTickTime, lastAITime,
                 nextEventTime, pauseStartTime, steps>>

\* handleNodeClick: the selection afterwards and the attack it issues, if any
ClickSelects(n) ==
  IF selectedNodeId = 0
  THEN IF renderWorld.nodes[n].owner = playerColor THEN n ELSE 0
  ELSE IF n = selectedNodeId THEN 0
  ELSE IF isConnected(renderWorld.edges, selectedNodeId, n) THEN 0
  ELSE IF renderWorld.nodes[n].owner = playerColor THEN n ELSE 0

ClickAttacks(n) ==
  selectedNodeId # 0 /\ n # selectedNodeId
  /\ isConnected(renderWorld.edges, selectedNodeId, n)

\* handleNodeMouseUp on the node the press began on: a click
handleNodeMouseUp(n, isContinuous) ==
  /\ dragPath = <<n>>
  /\ Commit(IF ClickAttacks(n)
            THEN handleAttack(NoCalls, gameState, tutorialStep, playerColor,
                              selectedNodeId, n, isContinuous)
            ELSE NoCalls)
  /\ selectedNodeId' = ClickSelects(n)
  /\ dragPath' = <<>>
  /\ UNCHANGED <<renderWorld, gameState, winner, playerColor, difficulty,
                 isPlayerAutoPilot, dateNow, lastTickTime, lastAITime,
                 nextEventTime, pauseStartTime, steps>>

----------------------------------------------------------------------------
(* Starting states: games in progress                                      *)

\* generateMap gives every node capacity MAX_CAPACITY_BASE and accumulator 0
Node(x, y, owner, prevOwner, count, type) ==
  [x |-> x, y |-> y, owner |-> owner, prevOwner |-> prevOwner,
   count |-> count * CountScale, capacity |-> MAX_CAPACITY_BASE,
   growthAccumulator |-> 0, captureProgress |-> CaptureFull, type |-> type]

\* the moment the game is looked at (a value of Date.now())
SnapshotTime == 100 * OCEAN_CURRENT_INTERVAL_MS

Transfer(id, s, t, owner, totalToSend, sentCount, ago) ==
  [id |-> id, sourceId |-> s, targetId |-> t, owner |-> owner,
   totalToSend |-> totalToSend, sentCount |-> sentCount,
   lastSpawnTime |-> SnapshotTime - ago]

\* a payload spawned `ticks' ticks ago from a source that then held sourceCount
InFlight(nodes, id, s, t, owner, sourceCount, ticks) ==
  LET inc == progressIncrement(nodes, [sourceId |-> s, targetId |-> t],
                               sourceCount * CountScale)
  IN [id |-> id, sourceId |-> s, targetId |-> t, owner |-> owner,
      count |-> CountScale, progress |-> ticks * inc, speed |-> inc]

\* Skirmish: the player holds nodes 1 and 4 and moves units between them in
\* both directions, RED streams over a RANDOM edge onto the neutral node 2
\* and is about to take node 4; the AI and the ocean current are due within
\* a few ticks.
SkirmishNodes ==
  <<Node(100, 100, "BLUE", "BLUE", 20, "DEFAULT"),
    Node(250, 100, GRAY, GRAY, 10, "DEFAULT"),
    Node(250, 300, "RED", "RED", 24, "DEFAULT"),
    Node(100, 300, "BLUE", "BLUE", 1, "DEFAULT")>>

Skirmish ==
  [nodes |-> SkirmishNodes,
   transfers |-> <<Transfer(1, 1, 2, "BLUE", 8, 3, 100),
                   Transfer(2, 1, 4, "BLUE", Infinity, 5, 50),
                   Transfer(3, 3, 2, "RED", 12, 2, 100)>>,
   payloads |-> <<InFlight(SkirmishNodes, 4, 3, 4, "RED", 26, 22),
                  InFlight(SkirmishNodes, 5, 3, 2, "RED", 25, 4),
                  InFlight(SkirmishNodes, 6, 3, 4, "RED", 26, 21),
                  InFlight(SkirmishNodes, 7, 4, 1, "BLUE", 3, 18),
                  InFlight(SkirmishNodes, 8, 1, 4, "BLUE", 20, 17)>>,
   idgen |-> 8, selected |-> 1,
   aiIn |-> 60, eventIn |-> 120, difficulty |-> 3]

\* Front line: node 2 changed hands from RED to the player a moment ago, so
\* one edge carries payloads of three colors; GREEN drains node 1 over three
\* transfers; a FORTRESS and a HIVE are about to be hit.
FrontNodes ==
  <<Node(100, 100, "GREEN", "GREEN", 30, "DEFAULT"),
    Node(250, 100, "BLUE", "RED", 1, "DEFAULT"),
    Node(250, 300, "RED", "RED", 1, "FORTRESS"),
    Node(100, 300, GRAY, GRAY, 1, "HIVE")>>

FrontLine ==
  [nodes |-> FrontNodes,
   transfers |-> <<Transfer(1, 1, 2, "GREEN", 15, 4, 150),
                   Transfer(2, 1, 4, "GREEN", 15, 6, 150),
                   Transfer(3, 1, 3, "GREEN", 15, 5, 150),
                   Transfer(4, 2, 1, "BLUE", Infinity, 1, 600),
                   Transfer(5, 2, 3, "BLUE", Infinity, 2, 600)>>,
   payloads |-> <<InFlight(FrontNodes, 6, 2, 1, "RED", 2, 14),
                  InFlight(FrontNodes, 7, 2, 1, "BLUE", 3, 12),
                  InFlight(FrontNodes, 8, 1, 2, "GREEN", 30, 10),
                  InFlight(FrontNodes, 9, 1, 4, "GREEN", 30, 29),
                  InFlight(FrontNodes, 10, 1, 3, "GREEN", 30, 37),
                  InFlight(FrontNodes, 11, 2, 3, "BLUE", 2, 43),
                  InFlight(FrontNodes, 12, 1, 4, "GREEN", 30, 28),
                  InFlight(FrontNodes, 13, 1, 3, "GREEN", 30, 36)>>,
   idgen |-> 13, selected |-> 0,
   aiIn |-> 1000, eventIn |-> 30000, difficulty |-> 3]

\* Landing: the player's FORTRESS is about to be credited a unit of growth
\* and a RED payload of twelve units lands on it in the same tick.
LandingNodes ==
  <<Node(100, 100, "RED", "RED", 20, "DEFAULT"),
    [Node(250, 100, "BLUE", "BLUE", 5, "FORTRESS") EXCEPT !.growthAccumulator = 9800]>>

Landing ==
  [nodes |-> LandingNodes,
   transfers |-> <<>>,
   payloads |-> <<[InFlight(LandingNodes, 1, 1, 2, "RED", 20, 23)
                     EXCEPT !.count = 12 * CountScale]>>,
   idgen |-> 1, selected |-> 0,
   aiIn |-> 1000, eventIn |-> 30000, difficulty |-> 3]

Scenes == {Skirmish, FrontLine, Landing}

SceneWorld(scene) ==
  [nodes |-> scene.nodes, edges |-> generateEdgesForNodes(scene.nodes),
   payloads |-> scene.payloads, transfers |-> scene.transfers,
   latestEvents |-> <<>>]

Init ==
  \E scene \in Scenes :
    /\ world = SceneWorld(scene)
    /\ renderWorld = Published(SceneWorld(scene))
    /\ gameState = "PLAYING"
    /\ winner = "none"
    /\ tutorialStep = 0
    /\ playerColor = "BLUE"
    /\ difficulty = scene.difficulty
    /\ isPlayerAutoPilot = FALSE
    /\ dateNow = SnapshotTime
    /\ lastTickTime = SnapshotTime
    /\ lastAITime = SnapshotTime + scene.aiIn
                    - DIFFICULTY_SETTINGS[scene.difficulty].actionInterval
    /\ nextEventTime = SnapshotTime + scene.eventIn
    /\ pauseStartTime = 0
    /\ selectedNodeId = scene.selected
    /\ dragPath = <<>>
    /\ idgen = scene.idgen
    /\ steps = [ticks |-> 0, gestures |-> 0, pauses |-> 0]
    /\ last = [op |-> "start"]

Next ==
  \/ Tick
  \/ Pause
  \/ Resume
  \/ \E n \in NodeIds(world.nodes) : handleNodeMouseDown(n)
  \/ \E n \in NodeIds(world.nodes) : handleNodeMouseEnter(n)
  \/ \E c \in BOOLEAN : handleSvgMouseUp(c)
  \/ \E n \in NodeIds(world.nodes), c \in BOOLEAN : handleNodeMouseUp(n, c)

Spec == Init /\ [][Next]_vars

----------------------------------------------------------------------------
(* advanceGameState on drawn inputs: one payload about to arrive           *)

ArrivalCounts == {0, 5, 6, 12}
ArrivalPayloadCounts == {1, 12}
ArrivalTypes == {"DEFAULT", "FORTRESS"}
ArrivalAccumulators == {0, 9800}

ArrivalNodes(owner, count, type, acc, sender) ==
  <<Node(100, 100, sender, sender, 20, "DEFAULT"),
    [Node(250, 100, owner, owner, count, type) EXCEPT !.growthAccumulator = acc]>>

\* a payload of the given count one step short of node 2
Arriving(nodes, sender, count) ==
  [InFlight(nodes, 1, 1, 2, sender, 20, 23) EXCEPT !.count = count * CountScale]

ArrivalWorld(owner, count, type, acc, sender, payloadCount) ==
  [nodes |-> ArrivalNodes(owner, count, type, acc, sender),
   edges |-> generateEdgesForNodes(ArrivalNodes(owner, count, type, acc, sender)),
   payloads |-> <<Arriving(ArrivalNodes(owner, count, type, acc, sender), sender,
                           payloadCount)>>,
   transfers |-> <<>>, latestEvents |-> <<>>]

InitArrival ==
  \E owner \in {GRAY, "RED", "BLUE"}, count \in ArrivalCounts, type \in ArrivalTypes,
     acc \in ArrivalAccumulators, sender \in {"RED", "BLUE"},
     payloadCount \in ArrivalPayloadCounts :
    /\ world = ArrivalWorld(owner, count, type, acc, sender, payloadCount)
    /\ renderWorld = Published(world)
    /\ gameState = "PLAYING"
    /\ winner = "none"
    /\ tutorialStep = 0
    /\ playerColor = "BLUE"
    /\ difficulty = 3
    /\ isPlayerAutoPilot = FALSE
    /\ dateNow = SnapshotTime
    /\ lastTickTime = SnapshotTime
    /\ lastAITime = SnapshotTime
    /\ nextEventTime = SnapshotTime + OCEAN_CURRENT_INTERVAL_MS
    /\ pauseStartTime = 0
    /\ selectedNodeId = 0
    /\ dragPath = <<>>
    /\ idgen = 1
    /\ steps = [ticks |-> 0, gestures |-> 0, pauses |-> 0]
    /\ last = [op |-> "start"]

SpecArrival == InitArrival /\ [][Tick]_vars

----------------------------------------------------------------------------
(* Map generation: generateMap, generateTutorialMap, generateHoneycombMap  *)

GAME_WIDTH == 1200
GAME_HEIGHT == 800
NODE_RADIUS_BASE == 19
centerX == GAME_WIDTH \div 2
centerY == GAME_HEIGHT \div 2

EmptyWorld ==
  [nodes |-> <<>>, edges |-> <<>>, payloads |-> <<>>, transfers |-> <<>>,
   latestEvents |-> <<>>]

FreshWorld(map) ==
  [nodes |-> map.nodes, edges |-> map.edges, payloads |-> <<>>,
   transfers |-> <<>>, latestEvents |-> <<>>]

\* the pairs i < j in the order the two nested loops visit them
LoopPairs(n) ==
  SelectSeq([k \in 1..(n * n) |-> <<((k - 1) \div n) + 1, ((k - 1) % n) + 1>>],
            LAMBDA p : p[1] < p[2])

Edge(s, t, type) == [source |-> s, target |-> t, type |-> type]

\* the nodes that can be reached from the nodes of S along the edges
RECURSIVE ReachedFrom(_, _)
ReachedFrom(edges, S) ==
  LET T == S \cup {edges[k].target : k \in {i \in 1..Len(edges) : edges[i].source \in S}}
             \cup {edges[k].source : k \in {i \in 1..Len(edges) : edges[i].target \in S}}
  IN IF T = S THEN S ELSE ReachedFrom(edges, T)

\* no islands: every node is reachable from every other node
NoIslands(nodes, edges) ==
  \A a \in NodeIds(nodes) : ReachedFrom(edges, {a}) = NodeIds(nodes)

----------------------------------------------------------------------------
(* generateMap.  The source lays out 24 nodes with a force simulation; the *)
(* model draws the simulation's outcome from MapLayouts, MapNodeCount      *)
(* nodes each.                                                             *)

MapNodeCount == 6

\* Math.max(r * 2.5, Math.min(WIDTH - r * 2.5, x)) on whole pixels
ClampPad == (NODE_RADIUS_BASE * 5 + 1) \div 2
ClampX(x) == Max(ClampPad, Min(GAME_WIDTH - ClampPad, x))
ClampY(y) == Max(ClampPad, Min(GAME_HEIGHT - ClampPad, y))

\* outcomes of the force simulation, <<x, y>> per node: a block three nodes
\* wide, rows far apart that overshoot the canvas, and a line
BlockLayout == [n \in 1..MapNodeCount |->
                  <<200 + 150 * ((n - 1) % 3), 200 + 150 * ((n - 1) \div 3)>>]
WideLayout == [n \in 1..MapNodeCount |->
                 <<30 + 535 * ((n - 1) % 3), 100 + 690 * ((n - 1) \div 3)>>]
LineLayout == [n \in 1..MapNodeCount |->
                 <<100 + ((n - 1) * 1000) \div (MapNodeCount - 1), 400>>]
MapLayouts == {BlockLayout, WideLayout, LineLayout}

\* outcomes of Math.floor(Math.random() * 21) + 10 per node
MapCounts == { [n \in 1..MapNodeCount |-> 10 + ((7 * n) % 21)] }

\* outcomes of the shuffle of the indices
MapShuffles ==
  { [n \in 1..MapNodeCount |-> n], [n \in 1..MapNodeCount |-> MapNodeCount + 1 - n] }

\* activeColors = [playerColor, ...opponents]
ActiveColors(player) ==
  <<player>> \o SelectSeq(PLAYABLE_COLORS, LAMBDA c : c # player)

\* the position of node n among the first Len(colors) shuffled indices, or 0
StartSlot(indices, colors, n) ==
  IF \E i \in 1..Len(colors) : indices[i] = n
  THEN CHOOSE i \in 1..Len(colors) : indices[i] = n
  ELSE 0

AssignStart(node, color) ==
  [node EXCEPT !.owner = color, !.prevOwner = color,
               !.count = INITIAL_PLAYER_COUNT * CountScale]

generateMap(player, layout, counts, indices) ==
  LET neutral == [n \in 1..MapNodeCount |->
                    Node(ClampX(layout[n][1]), ClampY(layout[n][2]),
                         GRAY, GRAY, counts[n], "DEFAULT")]
      colors == ActiveColors(player)
  IN [nodes |-> [n \in 1..MapNodeCount |->
                   IF StartSlot(indices, colors, n) = 0 THEN neutral[n]
                   ELSE AssignStart(neutral[n], colors[StartSlot(indices, colors, n)])],
      edges |-> generateEdgesForNodes(neutral)]

----------------------------------------------------------------------------
(* generateTutorialMap                                                     *)

\* centerX + cos(angle) * radius, centerY + sin(angle) * radius * 0.8 for
\* the 21 background nodes, rounded to whole pixels: the angle grows by 0.8
\* per node and the radius, 300 at first, by 40 after nodes 0, 8 and 16
TutorialSpiral ==
  << <<900, 400>>, <<837, 595>>, <<590, 672>>, <<349, 584>>, <<261, 384>>,
     <<378, 194>>, <<630, 129>>, <<864, 228>>, <<938, 432>>, <<831, 641>>,
     <<545, 701>>, <<292, 578>>, <<226, 347>>, <<387, 148>>, <<677, 102>>,
     <<921, 237>>, <<970, 470>>, <<815, 689>>, <<491, 724>>, <<233, 563>>,
     <<198, 303>> >>

TutorialPad == 60
TutorialLinkDist == 180

TutorialEnemyColor(player) == IF player = "RED" THEN "BLUE" ELSE "RED"

TutorialNodes(player) ==
  << Node(centerX - 180, centerY + 80, player, player, 40, "DEFAULT"),
     Node(centerX, centerY - 120, GRAY, GRAY, 10, "DEFAULT"),
     Node(centerX + 180, centerY + 80, TutorialEnemyColor(player),
          TutorialEnemyColor(player), 40, "DEFAULT") >>
  \o [i \in 1..Len(TutorialSpiral) |->
        Node(Max(TutorialPad, Min(GAME_WIDTH - TutorialPad, TutorialSpiral[i][1])),
             Max(TutorialPad, Min(GAME_HEIGHT - TutorialPad, TutorialSpiral[i][2])),
             GRAY, GRAY, 15 + ((i - 1) % 5) * 5, "DEFAULT")]

\* the forced triangle sides
TutorialTriangle ==
  << Edge(TutorialPlayer, TutorialNeutral, "PERMANENT"),
     Edge(TutorialNeutral, TutorialEnemy, "PERMANENT") >>

\* the pairs the distance rule links: closer than 180, not player-enemy, and
\* not linked already (i and j count from 0 in the source)
TutorialLinked(nodes, p) ==
  /\ Dist2(nodes[p[1]], nodes[p[2]]) < TutorialLinkDist * TutorialLinkDist
  /\ ~(p[1] = TutorialPlayer /\ p[2] = TutorialEnemy)
  /\ ~isConnected(TutorialTriangle, p[1], p[2])

TutorialEdgeType(p) ==
  IF ((p[1] - 1) + (p[2] - 1)) % 3 = 0 THEN "PERMANENT" ELSE "RANDOM"

TutorialMesh(nodes) ==
  LET linked == SelectSeq(LoopPairs(Len(nodes)), LAMBDA p : TutorialLinked(nodes, p))
  IN [k \in 1..Len(linked) |-> Edge(linked[k][1], linked[k][2], TutorialEdgeType(linked[k]))]

generateTutorialMap(player) ==
  [nodes |-> TutorialNodes(player),
   edges |-> TutorialTriangle \o TutorialMesh(TutorialNodes(player))]
----------------------------------------------------------------------------
(* generateHoneycombMap.  The source builds 3 rings around the centre; the *)
(* model builds mapRadius rings and takes the outermost ring where the     *)
(* source says layer 3.                                                    *)

mapRadius == 2
hexSize == 85

\* hexSize * sqrt(3) / 2 in thousandths of a pixel
HexHalfStep == 73612

\* hexToPixel, rounded to whole pixels
hexToPixel(q, r) ==
  [x |-> centerX + (HexHalfStep * (2 * q + r) + 500) \div 1000,
   y |-> centerY + (3 * hexSize * r) \div 2]

HexLayer(c) == Max(Max(Abs(c[1]), Abs(c[2])), Abs(0 - c[1] - c[2]))

\* the axial coordinates <<q, r>> of the grid, in the order of the loops
HexCells ==
  LET side == 2 * mapRadius + 1
  IN SelectSeq([k \in 1..(side * side) |->
                  <<((k - 1) \div side) - mapRadius, ((k - 1) % side) - mapRadius>>],
               LAMBDA c : HexLayer(c) <= mapRadius)

\* outcomes of 10 + Math.floor(Math.random() * 10) per node
HexCount(n) == 10 + ((7 * n) % 10)

HexNode(n) ==
  LET pos == hexToPixel(HexCells[n][1], HexCells[n][2])
      centre == HexLayer(HexCells[n]) = 0
  IN [Node(pos.x, pos.y, GRAY, GRAY, IF centre THEN 50 ELSE HexCount(n), "DEFAULT")
        EXCEPT !.capacity = IF centre THEN (MAX_CAPACITY_BASE * 3) \div 2
                            ELSE MAX_CAPACITY_BASE]

HexNodes == [n \in 1..Len(HexCells) |-> HexNode(n)]

nodeLayerMap(n) == HexLayer(HexCells[n])

\* dist < connectionThreshold, connectionThreshold = hexSize * 1.8
HexNeighbours(nodes, p) ==
  100 * Dist2(nodes[p[1]], nodes[p[2]]) < (18 * hexSize) * (18 * hexSize)

potentials(nodes) ==
  SelectSeq(LoopPairs(Len(nodes)), LAMBDA p : HexNeighbours(nodes, p))

MinLayer(p) == Min(nodeLayerMap(p[1]), nodeLayerMap(p[2]))
MaxLayer(p) == Max(nodeLayerMap(p[1]), nodeLayerMap(p[2]))

\* interLayerCandidates["l-(l+1)"]
interLayerCandidates(pots, l) ==
  SelectSeq(pots, LAMBDA p : MinLayer(p) = l /\ MaxLayer(p) = l + 1)

\* the k-th outcome of Math.random() < 0.4, the outcomes repeating `coins'
Coin(coins, k) == coins[((k - 1) % Len(coins)) + 1]

\* B: the outermost ring in full, the rest by the coin
SelectedFrom(pots, coins) ==
  LET chosen == SelectSeq([k \in 1..Len(pots) |-> k],
                  LAMBDA k : (MinLayer(pots[k]) = mapRadius /\ MaxLayer(pots[k]) = mapRadius)
                             \/ Coin(coins, k))
  IN [k \in 1..Len(chosen) |-> Edge(pots[chosen[k]][1], pots[chosen[k]][2], "PERMANENT")]

\* C: a layer pair none of whose candidates was selected gets one of them;
\* lastOne says whether Math.random() drew the last candidate or the first
RECURSIVE PatchFrom(_, _, _, _)
PatchFrom(pots, l, edges, lastOne) ==
  IF l >= mapRadius THEN edges
  ELSE LET candidates == interLayerCandidates(pots, l)
           hasConnection == \E k \in 1..Len(candidates) :
                              isConnected(edges, candidates[k][1], candidates[k][2])
           pick == candidates[IF lastOne THEN Len(candidates) ELSE 1]
       IN IF ~hasConnection /\ Len(candidates) > 0
          THEN PatchFrom(pots, l + 1, Append(edges, Edge(pick[1], pick[2], "PERMANENT")), lastOne)
          ELSE PatchFrom(pots, l + 1, edges, lastOne)

\* D: ds.connected(s, t) holds exactly when the edges united so far join s
\* to t; the potentials that join two components become edges
RECURSIVE BridgeFrom(_, _, _)
BridgeFrom(pots, k, edges) ==
  IF k > Len(pots) THEN edges
  ELSE IF pots[k][2] \notin ReachedFrom(edges, {pots[k][1]})
       THEN BridgeFrom(pots, k + 1, Append(edges, Edge(pots[k][1], pots[k][2], "PERMANENT")))
       ELSE BridgeFrom(pots, k + 1, edges)

HoneycombEdges(nodes, coins, lastOne) ==
  BridgeFrom(potentials(nodes), 1,
             PatchFrom(potentials(nodes), 0, SelectedFrom(potentials(nodes), coins), lastOne))

\* 3: the order of Math.atan2(y - centerY, x - centerX), from -pi to pi
AngleSector(n) ==
  LET dx == n.x - centerX
      dy == n.y - centerY
  IN IF dy < 0 THEN 0 ELSE IF dy = 0 /\ dx >= 0 THEN 1 ELSE IF dy > 0 THEN 2 ELSE 3

AngleBefore(nodes, a, b) ==
  LET ax == nodes[a].x - centerX
      ay == nodes[a].y - centerY
      bx == nodes[b].x - centerX
      by == nodes[b].y - centerY
      cross == ax * by - ay * bx
  IN \/ AngleSector(nodes[a]) < AngleSector(nodes[b])
     \/ /\ AngleSector(nodes[a]) = AngleSector(nodes[b])
        /\ (cross > 0 \/ (cross = 0 /\ a < b))

RECURSIVE SortByAngle(_, _)
SortByAngle(nodes, S) ==
  IF S = {} THEN <<>>
  ELSE LET m == CHOOSE a \in S : \A b \in S \ {a} : AngleBefore(nodes, a, b)
       IN <<m>> \o SortByAngle(nodes, S \ {m})

outerNodes(nodes) ==
  SortByAngle(nodes, {n \in NodeIds(nodes) : nodeLayerMap(n) = mapRadius})

\* spawnIndices, counted from 1
spawnIndices(outer) ==
  <<1, (Len(outer) \div 4) + 1, (Len(outer) \div 2) + 1, ((3 * Len(outer)) \div 4) + 1>>

HoneycombColors(player) ==
  <<player>> \o
    SubSeq(SelectSeq(<<"RED", "BLUE", "GREEN", "PURPLE">>, LAMBDA c : c # player), 1, 3)

\* the colour that spawns on node n, or GRAY
SpawnColor(nodes, player, n) ==
  LET outer == outerNodes(nodes)
      colors == HoneycombColors(player)
      slots == {i \in 1..Len(colors) : outer[spawnIndices(outer)[i]] = n}
  IN IF slots = {} THEN GRAY
     ELSE colors[CHOOSE i \in slots : \A j \in slots : j <= i]

WithSpawns(nodes, player) ==
  [n \in NodeIds(nodes) |->
     IF SpawnColor(nodes, player, n) = GRAY THEN nodes[n]
     ELSE [nodes[n] EXCEPT !.owner = SpawnColor(nodes, player, n),
                           !.prevOwner = SpawnColor(nodes, player, n),
                           !.count = 30 * CountScale]]

\* 4: the neutral, unoccupied nodes off the centre, shuffled: the model
\* draws the shuffle as a rotation by `turn'
eligibleNeutrals(nodes, turn) ==
  LET eligible == SelectSeq([n \in NodeIds(nodes) |-> n],
                    LAMBDA n : nodes[n].owner = GRAY /\ nodeLayerMap(n) # 0)
  IN [k \in 1..Len(eligible) |-> eligible[((k - 1 + turn) % Len(eligible)) + 1]]

WithTypes(nodes, turn, fortressCount, hiveCount) ==
  LET shuffled == eligibleNeutrals(nodes, turn)
      slot(n) == IF \E k \in 1..Len(shuffled) : shuffled[k] = n
                 THEN CHOOSE k \in 1..Len(shuffled) : shuffled[k] = n
                 ELSE 0
  IN [n \in NodeIds(nodes) |->
        IF slot(n) >= 1 /\ slot(n) <= fortressCount
        THEN [nodes[n] EXCEPT !.type = "FORTRESS"]
        ELSE IF slot(n) > fortressCount /\ slot(n) <= fortressCount + hiveCount
        THEN [nodes[n] EXCEPT !.type = "HIVE"]
        ELSE nodes[n]]

generateHoneycombMap(player, draw) ==
  [nodes |-> WithTypes(WithSpawns(HexNodes, player), draw.turn,
                       draw.fortressCount, draw.hiveCount),
   edges |-> HoneycombEdges(HexNodes, draw.coins, draw.lastOne)]

\* outcomes of the random draws of generateHoneycombMap
CoinRuns ==
  { <<FALSE>>, <<TRUE>>, <<TRUE, FALSE>>, <<FALSE, FALSE, TRUE>>,
    <<TRUE, FALSE, FALSE, FALSE, FALSE>> }

HoneycombDraws ==
  [coins : CoinRuns, lastOne : BOOLEAN, turn : {0, 5},
   fortressCount : {1, 2}, hiveCount : {1, 2}]
----------------------------------------------------------------------------
(* Starting a game and shifting its topology                               *)

\* above this many free candidates the shuffle of regenerateTopology is
\* drawn from two orders only
MaxShuffled == 10

\* outcomes of the shuffle of regenerateTopology: the RANDOM edges it adds
ShufflePicks(nodes, edges) ==
  IF Cardinality(FreeCandidates(nodes, edges)) <= MaxShuffled
  THEN RegenPicks(nodes, edges)
  ELSE LET inOrder == SelectSeq(LoopPairs(Len(nodes)),
                                LAMBDA p : p \in FreeCandidates(nodes, edges))
           k == Min(ExtraEdgesNeeded(nodes), Len(inOrder))
       IN {SubSeq(inOrder, 1, k), SubSeq(inOrder, Len(inOrder) - k + 1, Len(inOrder))}

GeneratedMaps(forceTutorial) ==
  IF forceTutorial THEN {generateTutorialMap("BLUE")}
  ELSE {generateMap(playerColor, layout, counts, indices) :
          layout \in MapLayouts, counts \in MapCounts, indices \in MapShuffles}

\* startGame with the world `initialWorld'
StartWith(initialWorld) ==
  /\ world' = initialWorld
  /\ renderWorld' = Published(initialWorld)
  /\ winner' = "none"
  /\ isPlayerAutoPilot' = FALSE
  /\ lastTickTime' = dateNow
  /\ lastAITime' = dateNow
  /\ nextEventTime' = dateNow + OCEAN_CURRENT_INTERVAL_MS
  /\ UNCHANGED <<difficulty, dateNow, pauseStartTime, selectedNodeId, dragPath,
                 idgen, steps>>

\* startGame, which the menu calls
startGame(forceTutorial) ==
  /\ gameState = "MENU"
  /\ gameState' = IF forceTutorial THEN "TUTORIAL" ELSE "PLAYING"
  /\ tutorialStep' = IF forceTutorial THEN 0 ELSE tutorialStep
  /\ playerColor' = IF forceTutorial THEN "BLUE" ELSE playerColor
  /\ \E map \in GeneratedMaps(forceTutorial) : StartWith(FreshWorld(map))
  /\ last' = [op |-> "startGame", forceTutorial |-> forceTutorial]

\* a game on the honeycomb map: generateHoneycombMap in the place of
\* generateMap
startHoneycomb ==
  /\ gameState = "MENU"
  /\ gameState' = "PLAYING"
  /\ \E draw \in HoneycombDraws :
       StartWith(FreshWorld(generateHoneycombMap(playerColor, draw)))
  /\ last' = [op |-> "startHoneycomb"]
  /\ UNCHANGED <<tutorialStep, playerColor>>

setPlayerColor(color) ==
  /\ gameState = "MENU"
  /\ playerColor # color
  /\ playerColor' = color
  /\ last' = [op |-> "setPlayerColor"]
  /\ UNCHANGED <<world, renderWorld, gameState, winner, tutorialStep, difficulty,
                 isPlayerAutoPilot, dateNow, lastTickTime, lastAITime, nextEventTime,
                 pauseStartTime, selectedNodeId, dragPath, idgen, steps>>

\* regenerateTopology, applied to the edges of the running game (the tutorial
\* keeps its map)
TopologyShift ==
  /\ gameState = "PLAYING"
  /\ \E picks \in ShufflePicks(world.nodes, world.edges) :
       \E shifted \in {[world EXCEPT !.edges =
                          regenerateTopology(world.nodes, world.edges, picks)]} :
         /\ world' = shifted
         /\ renderWorld' = Published(shifted)
  /\ last' = [op |-> "regenerateTopology"]
  /\ UNCHANGED <<gameState, winner, tutorialStep, playerColor, difficulty,
                 isPlayerAutoPilot, dateNow, lastTickTime, lastAITime, nextEventTime,
                 pauseStartTime, selectedNodeId, dragPath, idgen, steps>>

\* the colours the menu offers
MenuColors == {"BLUE", "RED"}

InitTopology ==
  /\ world = EmptyWorld
  /\ renderWorld = Published(EmptyWorld)
  /\ gameState = "MENU"
  /\ winner = "none"
  /\ tutorialStep = 0
  /\ playerColor = "BLUE"
  /\ difficulty = 3
  /\ isPlayerAutoPilot = FALSE
  /\ dateNow = SnapshotTime
  /\ lastTickTime = 0
  /\ lastAITime = 0
  /\ nextEventTime = 0
  /\ pauseStartTime = 0
  /\ selectedNodeId = 0
  /\ dragPath = <<>>
  /\ idgen = 0
  /\ steps = [ticks |-> 0, gestures |-> 0, pauses |-> 0]
  /\ last = [op |-> "start"]

NextTopology ==
  \/ \E forceTutorial \in BOOLEAN : startGame(forceTutorial)
  \/ startHoneycomb
  \/ \E color \in MenuColors : setPlayerColor(color)
  \/ TopologyShift

SpecTopology == InitTopology /\ [][NextTopology]_vars
----------------------------------------------------------------------------
(* gameLoop on drawn worlds: games about to be decided                     *)

\* who owns the three nodes of the world
DecisionOwners == {GRAY, "BLUE", "RED"}
\* the payload on its way from node 2 to node 1: none (GRAY), or one of the
\* given owner that has flown the given number of ticks (23 of 24: it lands
\* on the next tick)
DecisionPayloads ==
  {[owner |-> GRAY, ticks |-> 0]}
    \cup [owner : {"BLUE", "RED"}, ticks : {5, 23}]

\* node 1 has been drained to 0
DecisionNodes(o1, o2, o3) ==
  <<Node(100, 100, o1, o1, 0, "DEFAULT"),
    Node(250, 100, o2, o2, 20, "DEFAULT"),
    Node(400, 100, o3, o3, 20, "DEFAULT")>>

\* streaming says whether node 1's owner has a transfer from node 1 to node 2
DecisionWorld(o1, o2, o3, payload, streaming) ==
  [nodes |-> DecisionNodes(o1, o2, o3),
   edges |-> generateEdgesForNodes(DecisionNodes(o1, o2, o3)),
   payloads |-> IF payload.owner = GRAY THEN <<>>
                ELSE <<InFlight(DecisionNodes(o1, o2, o3), 1, 2, 1, payload.owner,
                                20, payload.ticks)>>,
   transfers |-> IF streaming /\ o1 # GRAY
                 THEN <<Transfer(2, 1, 2, o1, 10, 4, 20)>> ELSE <<>>,
   latestEvents |-> <<>>]

InitDecision ==
  \E o1 \in DecisionOwners, o2 \in DecisionOwners, o3 \in DecisionOwners,
     payload \in DecisionPayloads, streaming \in BOOLEAN, color \in {"BLUE", "RED"} :
    /\ world = DecisionWorld(o1, o2, o3, payload, streaming)
    /\ renderWorld = Published(world)
    /\ gameState = "PLAYING"
    /\ winner = "none"
    /\ tutorialStep = 0
    /\ playerColor = color
    /\ difficulty = 3
    /\ isPlayerAutoPilot = FALSE
    /\ dateNow = SnapshotTime
    /\ lastTickTime = SnapshotTime
    /\ lastAITime = SnapshotTime
    /\ nextEventTime = SnapshotTime + OCEAN_CURRENT_INTERVAL_MS
    /\ pauseStartTime = 0
    /\ selectedNodeId = 0
    /\ dragPath = <<>>
    /\ idgen = 2
    /\ steps = [ticks |-> 0, gestures |-> 0, pauses |-> 0]
    /\ last = [op |-> "start"]

SpecDecision == InitDecision /\ [][Tick]_vars

----------------------------------------------------------------------------
(* The tutorial: startGame(true), then ticks, attack commands and the      *)
(* NEXT button                                                             *)

\* how long the page was hidden after the tutorial began (ms): no frame runs
\* while it is hidden, and Date.now() goes on
TutorialAway == {0, OCEAN_CURRENT_INTERVAL_MS - 100, 2 * OCEAN_CURRENT_INTERVAL_MS}

\* the nodes the tutorial's commands go between
StoryNodes == {TutorialPlayer, TutorialNeutral, TutorialEnemy}

\* nextTutorialStep
nextTutorialStep ==
  /\ gameState = "TUTORIAL"
  /\ TUTORIAL_STEPS[tutorialStep + 1] \in {"NEXT", "SELECT"}
  /\ tutorialStep < Len(TUTORIAL_STEPS) - 1
  /\ tutorialStep' = tutorialStep + 1
  /\ last' = [op |-> "nextTutorialStep"]
  /\ UNCHANGED <<world, renderWorld, gameState, winner, playerColor, difficulty,
                 isPlayerAutoPilot, dateNow, lastTickTime, lastAITime,
                 nextEventTime, pauseStartTime, selectedNodeId, dragPath, idgen,
                 steps>>

\* handleAttack, called once
onAttack(fromId, toId, isContinuous) ==
  /\ steps.gestures < MaxGestures
  /\ fromId # toId
  /\ Commit(handleAttack(NoCalls, gameState, tutorialStep, playerColor,
                         fromId, toId, isContinuous))
  /\ steps' = Spend("gestures")
  /\ UNCHANGED <<renderWorld, gameState, winner, playerColor, difficulty,
                 isPlayerAutoPilot, dateNow, lastTickTime, lastAITime,
                 nextEventTime, pauseStartTime, selectedNodeId, dragPath>>

InitTutorial ==
  \E away \in TutorialAway :
    /\ world = FreshWorld(generateTutorialMap("BLUE"))
    /\ renderWorld = Published(world)
    /\ gameState = "TUTORIAL"
    /\ winner = "none"
    /\ tutorialStep = 0
    /\ playerColor = "BLUE"
    /\ difficulty = 3
    /\ isPlayerAutoPilot = FALSE
    /\ dateNow = SnapshotTime + away
    /\ lastTickTime = SnapshotTime
    /\ lastAITime = SnapshotTime
    /\ nextEventTime = SnapshotTime + OCEAN_CURRENT_INTERVAL_MS
    /\ pauseStartTime = 0
    /\ selectedNodeId = 0
    /\ dragPath = <<>>
    /\ idgen = 0
    /\ steps = [ticks |-> 0, gestures |-> 0, pauses |-> 0]
    /\ last = [op |-> "start"]

NextTutorial ==
  \/ Tick
  \/ nextTutorialStep
  \/ \E fromId \in StoryNodes, toId \in StoryNodes, c \in BOOLEAN :
       onAttack(fromId, toId, c)

SpecTutorial == InitTutorial /\ [][NextTutorial]_vars

----------------------------------------------------------------------------
(* advanceGameState on drawn inputs: a node at its capacity                *)

\* counts around MAX_CAPACITY_BASE
CapacityCounts == {MAX_CAPACITY_BASE - 1, MAX_CAPACITY_BASE, MAX_CAPACITY_BASE + 5}
CapacityTypes == {"DEFAULT", "HIVE"}

InitCapacity ==
  \E owner \in {"RED", "BLUE"}, count \in CapacityCounts, type \in CapacityTypes,
     acc \in ArrivalAccumulators, sender \in {"RED", "BLUE"} :
    /\ world = ArrivalWorld(owner, count, type, acc, sender, 1)
    /\ renderWorld = Published(world)
    /\ gameState = "PLAYING"
    /\ winner = "none"
    /\ tutorialStep = 0
    /\ playerColor = "BLUE"
    /\ difficulty = 3
    /\ isPlayerAutoPilot = FALSE
    /\ dateNow = SnapshotTime
    /\ lastTickTime = SnapshotTime
    /\ lastAITime = SnapshotTime
    /\ nextEventTime = SnapshotTime + OCEAN_CURRENT_INTERVAL_MS
    /\ pauseStartTime = 0
    /\ selectedNodeId = 0
    /\ dragPath = <<>>
    /\ idgen = 1
    /\ steps = [ticks |-> 0, gestures |-> 0, pauses |-> 0]
    /\ last = [op |-> "start"]

SpecCapacity == InitCapacity /\ [][Tick]_vars

----------------------------------------------------------------------------
(* advanceGameState on drawn inputs: a volley landing on one node          *)

\* node 2 in the middle, nodes 1, 3 and 4 around it at the same distance
VolleyNodes(o1, o3, o4, owner, count, type) ==
  <<Node(150, 300, o1, o1, 20, "DEFAULT"),
    Node(300, 300, owner, owner, count, type),
    Node(450, 300, o3, o3, 20, "DEFAULT"),
    Node(300, 150, o4, o4, 20, "DEFAULT")>>

\* one payload from each outer node, all one step short of node 2
VolleyWorld(o1, o3, o4, owner, count, type) ==
  LET nodes == VolleyNodes(o1, o3, o4, owner, count, type)
  IN [nodes |-> nodes,
      edges |-> generateEdgesForNodes(nodes),
      payloads |-> <<InFlight(nodes, 1, 1, 2, o1, 20, 23),
                     InFlight(nodes, 2, 3, 2, o3, 20, 23),
                     InFlight(nodes, 3, 4, 2, o4, 20, 23)>>,
      transfers |-> <<>>, latestEvents |-> <<>>]

VolleyCounts == {0, 1, 2}

InitVolley ==
  \E o1 \in {"RED", "BLUE"}, o3 \in {"RED", "BLUE"}, o4 \in {"RED", "BLUE", "GREEN"},
     owner \in {GRAY, "RED", "BLUE"}, count \in VolleyCounts, type \in ArrivalTypes :
    /\ world = VolleyWorld(o1, o3, o4, owner, count, type)
    /\ renderWorld = Published(world)
    /\ gameState = "PLAYING"
    /\ winner = "none"
    /\ tutorialStep = 0
    /\ playerColor = "BLUE"
    /\ difficulty = 3
    /\ isPlayerAutoPilot = FALSE
    /\ dateNow = SnapshotTime
    /\ lastTickTime = SnapshotTime
    /\ lastAITime = SnapshotTime
    /\ nextEventTime = SnapshotTime + OCEAN_CURRENT_INTERVAL_MS
    /\ pauseStartTime = 0
    /\ selectedNodeId = 0
    /\ dragPath = <<>>
    /\ idgen = 3
    /\ steps = [ticks |-> 0, gestures |-> 0, pauses |-> 0]
    /\ last = [op |-> "start"]

SpecVolley == InitVolley /\ [][Tick]_vars

----------------------------------------------------------------------------
(* Ticks and attack commands on drawn inputs: transfers near their quota   *)

\* what the player's node 1 holds
QuotaCounts == {0, 1, 6}
\* the finite transfer from node 1 to node 2: its goal, how much of it is
\* sent, and how long ago it spawned last (ms)
QuotaOrders ==
  {[totalToSend |-> 1, sentCount |-> 0], [totalToSend |-> 3, sentCount |-> 0],
   [totalToSend |-> 3, sentCount |-> 2]}
QuotaAges == {20, 1000}

\* the player's node between a RED node and a neutral one
QuotaNodes(count) ==
  <<Node(250, 100, "BLUE", "BLUE", count, "DEFAULT"),
    Node(100, 100, "RED", "RED", 20, "DEFAULT"),
    Node(400, 100, GRAY, GRAY, 10, "DEFAULT")>>

\* a finite transfer onto node 2 and a continuous one onto node 3
QuotaWorld(count, order, ago) ==
  [nodes |-> QuotaNodes(count),
   edges |-> generateEdgesForNodes(QuotaNodes(count)),
   payloads |-> <<>>,
   transfers |-> <<Transfer(1, 1, 2, "BLUE", order.totalToSend, order.sentCount, ago),
                   Transfer(2, 1, 3, "BLUE", Infinity, 5, 1000)>>,
   latestEvents |-> <<>>]

InitQuota ==
  \E count \in QuotaCounts, order \in QuotaOrders, ago \in QuotaAges :
    /\ world = QuotaWorld(count, order, ago)
    /\ renderWorld = Published(world)
    /\ gameState = "PLAYING"
    /\ winner = "none"
    /\ tutorialStep = 0
    /\ playerColor = "BLUE"
    /\ difficulty = 3
    /\ isPlayerAutoPilot = FALSE
    /\ dateNow = SnapshotTime
    /\ lastTickTime = SnapshotTime
    /\ lastAITime = SnapshotTime
    /\ nextEventTime = SnapshotTime + OCEAN_CURRENT_INTERVAL_MS
    /\ pauseStartTime = 0
    /\ selectedNodeId = 0
    /\ dragPath = <<>>
    /\ idgen = 2
    /\ steps = [ticks |-> 0, gestures |-> 0, pauses |-> 0]
    /\ last = [op |-> "start"]

NextQuota ==
  \/ Tick
  \/ \E fromId \in StoryNodes, toId \in StoryNodes, c \in BOOLEAN :
       onAttack(fromId, toId, c)

SpecQuota == InitQuota /\ [][NextQuota]_vars


----------------------------------------------------------------------------
(* advanceGameState on drawn inputs: accumulators about to carry           *)

\* what node 1 holds, and how much growth it has accumulated (in 1/AccScale)
GrowthCounts == {0, 1, 20, 150}
GrowthTypes == {"DEFAULT", "HIVE", "FORTRESS"}
GrowthAccumulators == {0, 8800, 9800, 9999}

\* node 1 is drawn; the player's node 2 and RED's node 3 keep the game going,
\* and a unit of the player's has just left node 2 for node 3
GrowthNodes(owner, count, type, acc) ==
  <<[Node(100, 100, owner, owner, count, type) EXCEPT !.growthAccumulator = acc],
    Node(250, 100, "BLUE", "BLUE", 20, "DEFAULT"),
    Node(400, 100, "RED", "RED", 20, "DEFAULT")>>

GrowthWorld(owner, count, type, acc) ==
  [nodes |-> GrowthNodes(owner, count, type, acc),
   edges |-> generateEdgesForNodes(GrowthNodes(owner, count, type, acc)),
   payloads |-> <<InFlight(GrowthNodes(owner, count, type, acc), 1, 2, 3, "BLUE", 20, 1)>>,
   transfers |-> <<>>, latestEvents |-> <<>>]

InitGrowth ==
  \E owner \in {GRAY, "RED", "BLUE"}, count \in GrowthCounts, type \in GrowthTypes,
     acc \in GrowthAccumulators :
    /\ world = GrowthWorld(owner, count, type, acc)
    /\ renderWorld = Published(world)
    /\ gameState = "PLAYING"
    /\ winner = "none"
    /\ tutorialStep = 0
    /\ playerColor = "BLUE"
    /\ difficulty = 3
    /\ isPlayerAutoPilot = FALSE
    /\ dateNow = SnapshotTime
    /\ lastTickTime = SnapshotTime
    /\ lastAITime = SnapshotTime
    /\ nextEventTime = SnapshotTime + OCEAN_CURRENT_INTERVAL_MS
    /\ pauseStartTime = 0
    /\ selectedNodeId = 0
    /\ dragPath = <<>>
    /\ idgen = 1
    /\ steps = [ticks |-> 0, gestures |-> 0, pauses |-> 0]
    /\ last = [op |-> "start"]

SpecGrowth == InitGrowth /\ [][Tick]_vars

----------------------------------------------------------------------------
(* A volley and the second after it: ticks until the ink has spread        *)

\* the tick budget of a run that watches a capture settle
MaxInkTicks == 22

\* gameLoop, for a frame on which the tick is due
InkTick ==
  /\ gameState \in {"PLAYING", "TUTORIAL"}
  /\ steps.ticks < MaxInkTicks
  /\ \E delay \in FrameDelays :
       TickAt(Max(dateNow, lastTickTime + TICK_RATE_MS) + delay)
  /\ steps' = Spend("ticks")
  /\ UNCHANGED <<playerColor, difficulty, isPlayerAutoPilot, pauseStartTime,
                 selectedNodeId, dragPath>>

SpecInk == InitVolley /\ [][InkTick]_vars

----------------------------------------------------------------------------
(* The animation frames: gameLoop on every frame, in every phase           *)

\* the time from one animation frame to the next (ms)
FrameGaps == {25}
\* frames are followed for this long after the last tick (ms)
MaxIdle == 120

\* gameLoop, whole: a frame at time now either returns early (the phase is
\* not PLAYING or TUTORIAL, or the tick is not due yet) or runs the tick
gameLoop ==
  \E gap \in FrameGaps :
    LET now == dateNow + gap
    IN IF (gameState # "PLAYING" /\ gameState # "TUTORIAL")
          \/ now - lastTickTime < TICK_RATE_MS
       THEN /\ now - lastTickTime <= MaxIdle
            /\ dateNow' = now
            /\ last' = [op |-> "frame", now |-> now]
            /\ UNCHANGED <<world, renderWorld, gameState, winner, tutorialStep,
                           playerColor, difficulty, isPlayerAutoPilot, lastTickTime,
                           lastAITime, nextEventTime, pauseStartTime, selectedNodeId,
                           dragPath, idgen, steps>>
       ELSE /\ steps.ticks < MaxTicks
            /\ TickAt(now)
            /\ steps' = Spend("ticks")
            /\ UNCHANGED <<playerColor, difficulty, isPlayerAutoPilot, pauseStartTime,
                           selectedNodeId, dragPath>>

\* resetGame, which the game-over screen calls
resetGame ==
  /\ gameState \in {"VICTORY", "DEFEAT"}
  /\ gameState' = "MENU"
  /\ last' = [op |-> "resetGame"]
  /\ UNCHANGED <<world, renderWorld, winner, tutorialStep, playerColor, difficulty,
                 isPlayerAutoPilot, dateNow, lastTickTime, lastAITime, nextEventTime,
                 pauseStartTime, selectedNodeId, dragPath, idgen, steps>>

\* the games watched frame by frame: won on the next tick, lost on the next
\* tick, lost in a few ticks unless the stream saves it, and undecided
FrameWorlds ==
  {DecisionWorld("RED", "BLUE", GRAY, [owner |-> "BLUE", ticks |-> 23], FALSE),
   DecisionWorld("BLUE", "RED", GRAY, [owner |-> "RED", ticks |-> 23], FALSE),
   DecisionWorld("BLUE", "RED", GRAY, [owner |-> "RED", ticks |-> 23], TRUE),
   DecisionWorld("BLUE", "RED", "BLUE", [owner |-> GRAY, ticks |-> 0], TRUE)}

\* the commands the player gives in these games
FrameCommands ==
  {[fromId |-> 2, toId |-> 1, isContinuous |-> FALSE],
   [fromId |-> 3, toId |-> 2, isContinuous |-> FALSE],
   [fromId |-> 1, toId |-> 2, isContinuous |-> TRUE]}

\* a payload on the last leg of its way: it lands on the next tick
LastLeg(nodes, id, s, t, owner, sourceCount) ==
  InFlight(nodes, id, s, t, owner, sourceCount,
           (ProgressScale - 1)
             \div progressIncrement(nodes, [sourceId |-> s, targetId |-> t],
                                    sourceCount * CountScale))

\* the tutorial late on: the player holds tutorial-neutral and has a unit
\* about to land on tutorial-enemy, which is as drawn
TutorialLateNodes(enemyOwner, enemyCount) ==
  [TutorialNodes("BLUE") EXCEPT
     ![TutorialNeutral] = Node(@.x, @.y, "BLUE", GRAY, 20, "DEFAULT"),
     ![TutorialEnemy] = Node(@.x, @.y, enemyOwner, "RED", enemyCount, "DEFAULT")]

TutorialLate(enemyOwner, enemyCount) ==
  [nodes |-> TutorialLateNodes(enemyOwner, enemyCount),
   edges |-> generateTutorialMap("BLUE").edges,
   payloads |-> <<LastLeg(TutorialLateNodes(enemyOwner, enemyCount), 1,
                          TutorialNeutral, TutorialEnemy, "BLUE", 20)>>,
   transfers |-> <<>>, latestEvents |-> <<>>]

\* the games watched: the worlds above while playing, and the late tutorial
\* at a NEXT step, at the STREAM step and at the WIN step
FrameGames ==
  {[world |-> w, gameState |-> "PLAYING", tutorialStep |-> 0] : w \in FrameWorlds}
    \cup {[world |-> TutorialLate(enemy.owner, enemy.count), gameState |-> "TUTORIAL",
            tutorialStep |-> step] :
             enemy \in {[owner |-> "RED", count |-> 0], [owner |-> "RED", count |-> 5],
                        [owner |-> "BLUE", count |-> 5]},
             step \in {4, 7, 8}}

InitFrames ==
  \E game \in FrameGames :
    /\ world = game.world
    /\ renderWorld = Published(world)
    /\ gameState = game.gameState
    /\ winner = "none"
    /\ tutorialStep = game.tutorialStep
    /\ playerColor = "BLUE"
    /\ difficulty = 3
    /\ isPlayerAutoPilot = FALSE
    /\ dateNow = SnapshotTime
    /\ lastTickTime = SnapshotTime
    /\ lastAITime = SnapshotTime
    /\ nextEventTime = SnapshotTime + OCEAN_CURRENT_INTERVAL_MS
    /\ pauseStartTime = 0
    /\ selectedNodeId = 0
    /\ dragPath = <<>>
    /\ idgen = 2
    /\ steps = [ticks |-> 0, gestures |-> 0, pauses |-> 0]
    /\ last = [op |-> "start"]

NextFrames ==
  \/ gameLoop
  \/ Pause
  \/ Resume
  \/ resetGame
  \/ startGame(TRUE)
  \/ nextTutorialStep
  \/ \E command \in FrameCommands :
       onAttack(command.fromId, command.toId, command.isContinuous)

SpecFrames == InitFrames /\ [][NextFrames]_vars
----------------------------------------------------------------------------
(* advanceGameState on drawn inputs: the AI is due                         *)

\* what RED's node 1 holds, in halves of a unit (9, 10, 10.5 and 11.5: the
\* node is a FORTRESS, which takes damage by halves), and what the
\* player's node 2 holds
AICounts == {18, 20, 21, 23}
AIPlayerCounts == {9, 30}
AIAccumulators == {0, 9999}

AINodes(count, acc, playerCount) ==
  <<[Node(100, 100, "RED", "RED", 0, "FORTRESS")
       EXCEPT !.count = count, !.growthAccumulator = acc],
    Node(250, 100, "BLUE", "BLUE", playerCount, "DEFAULT"),
    Node(400, 100, GRAY, GRAY, 5, "DEFAULT")>>

\* streaming says whether RED has a stream from node 1 to node 3 that is due
AIWorld(count, acc, playerCount, streaming) ==
  [nodes |-> AINodes(count, acc, playerCount),
   edges |-> generateEdgesForNodes(AINodes(count, acc, playerCount)),
   payloads |-> <<>>,
   transfers |-> IF streaming THEN <<Transfer(1, 1, 3, "RED", Infinity, 3, 1000)>>
                 ELSE <<>>,
   latestEvents |-> <<>>]

toggleAutoPilot ==
  /\ isPlayerAutoPilot' = ~isPlayerAutoPilot
  /\ last' = [op |-> "toggleAutoPilot"]
  /\ UNCHANGED <<world, renderWorld, gameState, winner, tutorialStep, playerColor,
                 difficulty, dateNow, lastTickTime, lastAITime, nextEventTime,
                 pauseStartTime, selectedNodeId, dragPath, idgen, steps>>

\* the levels played, and how long after the snapshot the AI's interval
\* ends: at once, or exactly at the first tick (which is then too early)
AILevels == {1, 3}
AIWaits == {0, TICK_RATE_MS}

InitAI ==
  \E count \in AICounts, acc \in AIAccumulators, playerCount \in AIPlayerCounts,
     streaming \in BOOLEAN, level \in AILevels, wait \in AIWaits :
    /\ world = AIWorld(count, acc, playerCount, streaming)
    /\ renderWorld = Published(world)
    /\ gameState = "PLAYING"
    /\ winner = "none"
    /\ tutorialStep = 0
    /\ playerColor = "BLUE"
    /\ difficulty = level
    /\ isPlayerAutoPilot = FALSE
    /\ dateNow = SnapshotTime
    /\ lastTickTime = SnapshotTime
    /\ lastAITime = SnapshotTime + wait - DIFFICULTY_SETTINGS[level].actionInterval
    /\ nextEventTime = SnapshotTime + OCEAN_CURRENT_INTERVAL_MS
    /\ pauseStartTime = 0
    /\ selectedNodeId = 0
    /\ dragPath = <<>>
    /\ idgen = 1
    /\ steps = [ticks |-> 0, gestures |-> 0, pauses |-> 0]
    /\ last = [op |-> "start"]

NextAI == Tick \/ toggleAutoPilot

SpecAI == InitAI /\ [][NextAI]_vars
----------------------------------------------------------------------------
(* advanceGameState on drawn inputs: the AI weighs one target              *)

\* what RED's node 1 holds (10 and 20 units, and 140: above nine tenths of
\* its capacity) and what its only neighbour, node 2, holds, in halves of a
\* unit: values on both sides of the source's count, of half of it, and of a
\* deficit of ten
ScoreSources == {10, 20, 140}
ScoreTargets == {10, 19, 20, 39, 40, 41, 59, 60, 61, 139, 140, 280, 300}
ScoreOwners == {GRAY, "RED", "BLUE"}
ScoreTypes == {"DEFAULT", "FORTRESS"}
ScoreLevels == {3, 6}

\* node 3 is the player's and out of node 1's reach
ScoreNodes(sourceCount, owner, type, targetCount) ==
  <<Node(100, 100, "RED", "RED", sourceCount, "DEFAULT"),
    [Node(250, 100, owner, owner, 0, type) EXCEPT !.count = targetCount],
    Node(550, 100, "BLUE", "BLUE", 5, "DEFAULT")>>

ScoreWorld(sourceCount, owner, type, targetCount) ==
  [nodes |-> ScoreNodes(sourceCount, owner, type, targetCount),
   edges |-> generateEdgesForNodes(ScoreNodes(sourceCount, owner, type, targetCount)),
   payloads |-> <<>>, transfers |-> <<>>, latestEvents |-> <<>>]

InitScore ==
  \E sourceCount \in ScoreSources, owner \in ScoreOwners, type \in ScoreTypes,
     targetCount \in ScoreTargets, level \in ScoreLevels :
    /\ world = ScoreWorld(sourceCount, owner, type, targetCount)
    /\ renderWorld = Published(world)
    /\ gameState = "PLAYING"
    /\ winner = "none"
    /\ tutorialStep = 0
    /\ playerColor = "BLUE"
    /\ difficulty = level
    /\ isPlayerAutoPilot = FALSE
    /\ dateNow = SnapshotTime
    /\ lastTickTime = SnapshotTime
    /\ lastAITime = SnapshotTime - DIFFICULTY_SETTINGS[level].actionInterval
    /\ nextEventTime = SnapshotTime + OCEAN_CURRENT_INTERVAL_MS
    /\ pauseStartTime = 0
    /\ selectedNodeId = 0
    /\ dragPath = <<>>
    /\ idgen = 0
    /\ steps = [ticks |-> 0, gestures |-> 0, pauses |-> 0]
    /\ last = [op |-> "start"]

SpecScore == InitScore /\ [][Tick]_vars
----------------------------------------------------------------------------
(* handleAttack on drawn worlds: a node about to change hands              *)

\* RED's node 1 is nearly empty and one or three payloads of the player's
\* land on it on the next tick; RED may have an order from node 1 to node 2
\* in the list
TakeoverCounts == {0, 1}
TakeoverPayloads == {1, 3}               \* how many payloads land
TakeoverOrders == {0, 10, Infinity}      \* 0: no order

TakeoverNodes(count) ==
  <<Node(100, 100, "RED", "RED", count, "DEFAULT"),
    Node(250, 100, "BLUE", "BLUE", 20, "DEFAULT"),
    Node(400, 100, "RED", "RED", 20, "DEFAULT")>>

TakeoverWorld(count, payloadCount, order) ==
  [nodes |-> TakeoverNodes(count),
   edges |-> generateEdgesForNodes(TakeoverNodes(count)),
   payloads |-> [k \in 1..payloadCount |->
                   LastLeg(TakeoverNodes(count), k + 1, 2, 1, "BLUE", 21 - k)],
   transfers |-> IF order = 0 THEN <<>>
                 ELSE <<Transfer(1, 1, 2, "RED", order, 4, 20)>>,
   latestEvents |-> <<>>]

InitTakeover ==
  \E count \in TakeoverCounts, payloadCount \in TakeoverPayloads,
     order \in TakeoverOrders :
    /\ world = TakeoverWorld(count, payloadCount, order)
    /\ renderWorld = Published(world)
    /\ gameState = "PLAYING"
    /\ winner = "none"
    /\ tutorialStep = 0
    /\ playerColor = "BLUE"
    /\ difficulty = 3
    /\ isPlayerAutoPilot = FALSE
    /\ dateNow = SnapshotTime
    /\ lastTickTime = SnapshotTime
    /\ lastAITime = SnapshotTime
    /\ nextEventTime = SnapshotTime + OCEAN_CURRENT_INTERVAL_MS
    /\ pauseStartTime = 0
    /\ selectedNodeId = 0
    /\ dragPath = <<>>
    /\ idgen = 4
    /\ steps = [ticks |-> 0, gestures |-> 0, pauses |-> 0]
    /\ last = [op |-> "start"]

NextTakeover ==
  \/ Tick
  \/ \E fromId \in {1, 2}, toId \in {1, 2}, isContinuous \in BOOLEAN :
       onAttack(fromId, toId, isContinuous)

SpecTakeover == InitTakeover /\ [][NextTakeover]_vars
----------------------------------------------------------------------------
(* advanceGameState on drawn worlds: payloads about to meet on an edge     *)

\* BLUE, a computer player, sends from node 2 to node 1.  The AI phase adds
\* a transfer for every move without looking for one of the same pair, so
\* BLUE may have two transfers from 2 to 1: an older one whose interval has
\* passed and a new one that has not spawned yet.  A payload of RED's is two
\* steps short of node 2.
MeetingOrders == {1, 2}                  \* BLUE's transfers from 2 to 1
MeetingCounts == {20, 60}                \* the count of node 2
MeetingSpeeds == {20, 150}               \* the count RED's payload left with

MeetingNodes(count) ==
  <<Node(100, 100, "RED", "RED", 20, "DEFAULT"),
    Node(250, 100, "BLUE", "BLUE", count, "DEFAULT")>>

\* a payload two steps short of its target
TwoShort(nodes, id, s, t, owner, sourceCount) ==
  InFlight(nodes, id, s, t, owner, sourceCount,
           (ProgressScale - 1)
             \div progressIncrement(nodes, [sourceId |-> s, targetId |-> t],
                                    sourceCount * CountScale) - 1)

MeetingWorld(count, orders, speed) ==
  [nodes |-> MeetingNodes(count),
   edges |-> generateEdgesForNodes(MeetingNodes(count)),
   payloads |-> <<TwoShort(MeetingNodes(count), 1, 1, 2, "RED", speed)>>,
   transfers |-> IF orders = 1
                 THEN <<Transfer(2, 2, 1, "BLUE", 10, 3, 2 * TICK_RATE_MS)>>
                 ELSE <<Transfer(2, 2, 1, "BLUE", 10, 3, 2 * TICK_RATE_MS),
                        [Transfer(3, 2, 1, "BLUE", 10, 0, 0)
                           EXCEPT !.lastSpawnTime = 0]>>,
   latestEvents |-> <<>>]

InitMeeting ==
  \E count \in MeetingCounts, orders \in MeetingOrders, speed \in MeetingSpeeds :
    /\ world = MeetingWorld(count, orders, speed)
    /\ renderWorld = Published(world)
    /\ gameState = "PLAYING"
    /\ winner = "none"
    /\ tutorialStep = 0
    /\ playerColor = "RED"
    /\ difficulty = 3
    /\ isPlayerAutoPilot = FALSE
    /\ dateNow = SnapshotTime
    /\ lastTickTime = SnapshotTime
    /\ lastAITime = SnapshotTime
    /\ nextEventTime = SnapshotTime + OCEAN_CURRENT_INTERVAL_MS
    /\ pauseStartTime = 0
    /\ selectedNodeId = 0
    /\ dragPath = <<>>
    /\ idgen = 3
    /\ steps = [ticks |-> 0, gestures |-> 0, pauses |-> 0]
    /\ last = [op |-> "start"]

NextMeeting ==
  \/ Tick
  \/ \E isContinuous \in BOOLEAN : onAttack(1, 2, isContinuous)

SpecMeeting == InitMeeting /\ [][NextMeeting]_vars
----------------------------------------------------------------------------
(* gameLoop without an end: a drained source with two transfers            *)

\* The tick reads the clock and the stored times only through differences
\* (now - lastSpawnTime, now - lastAITime, now >= nextEventTime), and payload
\* ids only to tell payloads apart.  A state is therefore kept as it looks
\* from its own now: after each tick every stored time is moved back by the
\* tick's length (a time older than every interval stays at AgeCap), and the
\* payloads are numbered by their place in the list.  The sentCount of a
\* continuous transfer is never read (the quota test passes on totalToSend
\* === Infinity), so it is not counted.
AgeCap == 2500
PayloadBase == 10

Rebased(t, d) == Max(t - d, SnapshotTime - AgeCap)

RebaseWorld(w, d) ==
  [w EXCEPT
     !.transfers = [k \in 1..Len(w.transfers) |->
                      [w.transfers[k] EXCEPT
                         !.lastSpawnTime = Rebased(@, d),
                         !.sentCount = IF w.transfers[k].totalToSend = Infinity
                                       THEN 0 ELSE @]],
     !.payloads = [k \in 1..Len(w.payloads) |->
                     [w.payloads[k] EXCEPT !.id = PayloadBase + k]]]

\* BLUE's node 1 is drained: it streams to RED's node 2 and has a finite
\* transfer to the neutral node 3 later in the list.  Two payloads of the
\* stream are on their way, and node 2 is as weak as node 1.
StarveQuotas == {5, 10}
StarveSent == {0, 4}

StarveNodes ==
  <<[Node(250, 100, "BLUE", "BLUE", 0, "DEFAULT") EXCEPT !.growthAccumulator = 9500],
    [Node(100, 100, "RED", "RED", 1, "DEFAULT") EXCEPT !.growthAccumulator = 500],
    Node(400, 100, GRAY, GRAY, 20, "DEFAULT")>>

StarveWorld(quota, sent) ==
  [nodes |-> StarveNodes,
   edges |-> generateEdgesForNodes(StarveNodes),
   payloads |-> <<InFlight(StarveNodes, PayloadBase + 1, 1, 2, "BLUE", 1, 20)>>,
   transfers |-> <<Transfer(1, 1, 2, "BLUE", Infinity, 0, 1000),
                   Transfer(2, 1, 3, "BLUE", quota, sent, 1000)>>,
   latestEvents |-> <<>>]

InitStarve ==
  \E quota \in StarveQuotas, sent \in StarveSent :
    /\ world = StarveWorld(quota, sent)
    /\ renderWorld = Published(world)
    /\ gameState = "PLAYING"
    /\ winner = "none"
    /\ tutorialStep = 0
    /\ playerColor = "BLUE"
    /\ difficulty = 4
    /\ isPlayerAutoPilot = FALSE
    /\ dateNow = SnapshotTime
    /\ lastTickTime = SnapshotTime
    /\ lastAITime = SnapshotTime
    /\ nextEventTime = SnapshotTime + OCEAN_CURRENT_INTERVAL_MS
    /\ pauseStartTime = 0
    /\ selectedNodeId = 0
    /\ dragPath = <<>>
    /\ idgen = PayloadBase + 1
    /\ steps = [ticks |-> 0, gestures |-> 0, pauses |-> 0]
    /\ last = [op |-> "start"]

\* the ticks are told apart by a beat that turns with each of them
NextBeat == IF last.op = "gameLoop" THEN 1 - last.beat ELSE 0

\* gameLoop, for a frame on which the tick is due, any number of times
TickOn ==
  /\ gameState = "PLAYING"
  /\ \E ctx \in {PhysicsContext(lastTickTime + TICK_RATE_MS)} :
       \E picks \in (IF TopologyDue(ctx) THEN RegenPicks(world.nodes, world.edges)
                                         ELSE {<<>>}) :
         \E moves \in AIDraws(ctx, picks) :
           \E r \in {advanceGameState(world, ctx, idgen,
                                      [picks |-> picks, moves |-> moves])} :
             \E status \in {checkWinCondition(r.world, playerColor)} :
               /\ world' = RebaseWorld(r.world, TICK_RATE_MS)
               /\ lastAITime' = Rebased(r.lastAITime, TICK_RATE_MS)
               /\ nextEventTime' = r.nextEventTime - TICK_RATE_MS
               /\ idgen' = PayloadBase + Len(r.world.payloads)
               /\ renderWorld' = IF r.hasChanges THEN Published(r.world) ELSE renderWorld
               /\ gameState' = IF ~status.isGameOver THEN gameState
                               ELSE IF status.winner # "none" THEN "VICTORY"
                               ELSE "DEFEAT"
               /\ winner' = IF status.isGameOver THEN status.winner ELSE winner
  /\ last' = [op |-> "gameLoop", beat |-> NextBeat]
  /\ UNCHANGED <<dateNow, lastTickTime, tutorialStep, playerColor, difficulty,
                 isPlayerAutoPilot, pauseStartTime, selectedNodeId, dragPath, steps>>

\* requestAnimationFrame calls gameLoop again and again, so a tick that can
\* run eventually runs.  Every step of this specification is a step of
\* TickOn, TickOn can take a step exactly while the game is PLAYING, and a
\* step is one of TickOn exactly when it turns the beat: the fairness of
\* TickOn is stated on Beat.
Beat == gameState = "PLAYING" /\ last' = [op |-> "gameLoop", beat |-> NextBeat]

SpecStarve == InitStarve /\ [][TickOn]_vars /\ WF_last(Beat)
----------------------------------------------------------------------------
(* Properties                                                              *)

LastTick == last.op = "tick"

\* C1: every node's count is >= 0 after every tick, whatever ticks, attack
\* commands and AI actions came before (and also right after the spawning
\* phase of each tick, where several transfers may drain one source).
C1_NonNegativeCounts ==
  /\ \A id \in NodeIds(world.nodes) : world.nodes[id].count >= 0
  /\ LastTick => \A id \in NodeIds(last.afterSpawn) : last.afterSpawn[id].count >= 0

\* C1 witness: a tick in which two transfers drained the same source, a
\* source was drained to 0, and a FORTRESS was left with a fractional count.
C1_Witness ==
  /\ LastTick
  /\ \E a, b \in 1..Len(last.before.transfers) :
       /\ a # b
       /\ last.before.transfers[a].sourceId = last.before.transfers[b].sourceId
       /\ {last.before.transfers[a].id, last.before.transfers[b].id} \subseteq last.spawned
  /\ \E id \in NodeIds(world.nodes) : last.afterSpawn[id].count = 0
  /\ \E id \in NodeIds(world.nodes) :
       world.nodes[id].type = "FORTRESS" /\ world.nodes[id].count % CountScale # 0

\* the payloads that resolved an arrival at node id in the last tick
ArrivedAt(id) ==
  {k \in 1..Len(last.moved) :
     /\ last.moved[k].targetId = id
     /\ \E a \in 1..Len(last.arrived) : last.arrived[a] = last.moved[k].id}

\* C2: a payload arriving at a node of another owner does damage equal to its
\* count, halved at a FORTRESS; a negative result captures the node (owner
\* the payload's, count |result|, prevOwner the old owner, captureProgress 0,
\* type kept), a result >= 0 only lowers the count.  Stated for the ticks in
\* which one payload arrives at the node, against the node as it was when the
\* arrivals were resolved.
C2_CaptureArithmetic ==
  LastTick =>
    \A id \in NodeIds(world.nodes) : \A k \in ArrivedAt(id) :
      LET p == last.moved[k]
          target == last.afterSpawn[id]
          after == world.nodes[id]
          damage == IF target.type = "FORTRESS" THEN p.count \div 2 ELSE p.count
          result == target.count - damage
      IN (Cardinality(ArrivedAt(id)) = 1 /\ p.owner # target.owner) =>
           IF result < 0
           THEN /\ after.owner = p.owner
                /\ after.count = 0 - result
                /\ after.prevOwner = target.owner
                /\ after.captureProgress = 0
                /\ after.type = target.type
           ELSE /\ after.count = result
                /\ after.owner = target.owner
                /\ after.prevOwner = target.prevOwner
                /\ after.captureProgress = target.captureProgress
                /\ after.type = target.type

\* C2 witness: a FORTRESS of count 5 hit by a payload of count 12 of another
\* owner has been captured and holds count 1.
C2_Witness ==
  /\ LastTick
  /\ \E k \in ArrivedAt(2) :
       /\ last.moved[k].count = 12 * CountScale
       /\ last.moved[k].owner # last.afterSpawn[2].owner
  /\ last.afterSpawn[2].type = "FORTRESS"
  /\ last.afterSpawn[2].count = 5 * CountScale
  /\ world.nodes[2].count = 1 * CountScale
  /\ world.nodes[2].owner # last.afterSpawn[2].owner

\* Two payloads as C3 describes them: on the same undirected edge, of
\* different owners, launched from opposite ends, and closer on the common
\* axis than the collision threshold (15 pixels of the edge's length).
C3_Opposed(p, q) ==
  /\ {p.sourceId, p.targetId} = {q.sourceId, q.targetId}
  /\ p.owner # q.owner
  /\ p.sourceId # q.sourceId
  /\ Abs(p.progress - (ProgressScale - q.progress))
        * Hypot(world.nodes[p.sourceId], world.nodes[p.targetId])
       < CollisionRadius * ProgressScale

C3_Removed(k) == last.moved[k].id \in last.removed

C3_Arrived(k) == \E a \in 1..Len(last.arrived) : last.arrived[a] = last.moved[k].id

C3_Survives(k) == \E s \in 1..Len(world.payloads) : world.payloads[s].id = last.moved[k].id

\* C3 as stated: in one tick both payloads of every opposed pair are removed
\* and neither resolves an arrival, and a payload is removed by collision
\* only together with an opposed payload of another owner.
C3_BothRemoved ==
  LastTick =>
    \A i, j \in 1..Len(last.moved) :
      C3_Opposed(last.moved[i], last.moved[j]) =>
        /\ C3_Removed(i) /\ C3_Removed(j)
        /\ ~C3_Arrived(i) /\ ~C3_Arrived(j)

\* C3 amended: of every opposed pair at least one payload is removed in that
\* tick, and both are when neither is opposed to a third payload; a removed
\* payload resolves no arrival and is gone from the world; and a payload is
\* removed only together with a payload opposed to it (so never by one of
\* its own owner).
C3_Collision ==
  LastTick =>
    /\ \A i, j \in 1..Len(last.moved) :
         C3_Opposed(last.moved[i], last.moved[j]) =>
           /\ C3_Removed(i) \/ C3_Removed(j)
           /\ (\A k \in 1..Len(last.moved) :
                 k \notin {i, j} => /\ ~C3_Opposed(last.moved[i], last.moved[k])
                                    /\ ~C3_Opposed(last.moved[j], last.moved[k]))
              => C3_Removed(i) /\ C3_Removed(j)
    /\ \A i \in 1..Len(last.moved) :
         C3_Removed(i) =>
           /\ ~C3_Arrived(i)
           /\ ~C3_Survives(i)
           /\ \E j \in 1..Len(last.moved) :
                C3_Opposed(last.moved[i], last.moved[j]) /\ C3_Removed(j)

\* C3 witness: a tick removed both payloads of an opposed pair.
C3_Witness ==
  /\ LastTick
  /\ \E i, j \in 1..Len(last.moved) :
       /\ C3_Opposed(last.moved[i], last.moved[j])
       /\ C3_Removed(i) /\ C3_Removed(j)

LastAttack == last.op = "attack"

\* the transfers of a list that go from node s to node t
C4_Matches(transfers, s, t) ==
  {k \in 1..Len(transfers) : transfers[k].sourceId = s /\ transfers[k].targetId = t}

\* C4: a command of the player on a pair that already has a transfer adds no
\* transfer; the first transfer of the pair gets the goal: unbounded for a
\* continuous command, unbounded if it was unbounded, else the old goal plus
\* floor(source.count / 2); its sentCount and lastSpawnTime, and every other
\* transfer, stay as they were.
C4_MergeSemantics ==
  LastAttack =>
    \A c \in 1..Len(last.calls) :
      LET call == last.calls[c]
          hits == C4_Matches(call.before, call.fromId, call.toId)
          first == CHOOSE k \in hits : \A j \in hits : k <= j
          amount == call.nodes[call.fromId].count \div (2 * CountScale)
      IN (hits # {} /\ call.nodes[call.fromId].owner = playerColor) =>
           /\ Len(call.after) = Len(call.before)
           /\ call.after[first].sentCount = call.before[first].sentCount
           /\ call.after[first].lastSpawnTime = call.before[first].lastSpawnTime
           /\ call.after[first].totalToSend =
                IF call.isContinuous \/ call.before[first].totalToSend = Infinity
                THEN Infinity
                ELSE call.before[first].totalToSend + amount
           /\ \A k \in 1..Len(call.before) :
                k # first => call.after[k] = call.before[k]

\* C4 witness: a finite command of 10 units onto a transfer of goal 8 with 3
\* sent left one transfer of goal 18 with 3 sent.
C4_Witness ==
  /\ LastAttack
  /\ \E c \in 1..Len(last.calls) :
       LET call == last.calls[c]
       IN /\ ~call.isContinuous
          /\ call.nodes[call.fromId].count = 20 * CountScale
          /\ \E k \in C4_Matches(call.before, call.fromId, call.toId) :
               /\ call.before[k].totalToSend = 8 /\ call.before[k].sentCount = 3
               /\ call.after[k].totalToSend = 18 /\ call.after[k].sentCount = 3
          /\ Len(call.after) = Len(call.before)

\* C5 as stated: the world never holds two transfers with the same
\* (sourceId, targetId): an AI move onto a pair that already has a transfer
\* creates no second one.
C5_OneTransferPerPair ==
  \A a, b \in 1..Len(world.transfers) :
    (world.transfers[a].sourceId = world.transfers[b].sourceId
     /\ world.transfers[a].targetId = world.transfers[b].targetId) => a = b

\* C6 as stated: a handleAttack call whose source is not the player's, whose
\* source and target are joined by no edge, or whose one-shot amount
\* floor(source.count / 2) is below 1 leaves the transfer list unchanged.
C6_InvalidCommandIsNoOp ==
  LastAttack =>
    \A c \in 1..Len(last.calls) :
      LET call == last.calls[c]
          source == call.nodes[call.fromId]
      IN (\/ source.owner # playerColor
          \/ ~isConnected(call.edges, call.fromId, call.toId)
          \/ (~call.isContinuous /\ source.count \div (2 * CountScale) < 1))
         => call.after = call.before

\* C7 as stated: in every reachable state every transfer and every payload
\* goes between two nodes joined by an edge of the current edge list.
C7_OnlyAlongEdges ==
  /\ \A k \in 1..Len(world.transfers) :
       isConnected(world.edges, world.transfers[k].sourceId, world.transfers[k].targetId)
  /\ \A k \in 1..Len(world.payloads) :
       isConnected(world.edges, world.payloads[k].sourceId, world.payloads[k].targetId)

C8_Joined(it) == isConnected(world.edges, it.sourceId, it.targetId)

C8_Ids(items) == {items[k].id : k \in 1..Len(items)}

\* C8: in a tick that regenerates the topology, a payload or transfer whose
\* pair no edge of the new list joins is gone from the returned world and
\* took no part in the tick (a severed transfer spawned nothing, a severed
\* payload neither moved, collided nor arrived); one whose pair is still
\* joined was not dropped: the payload went through the tick's physics, the
\* transfer is still there unless its source changed hands or its goal was met.
C8_Severance ==
  (LastTick /\ last.shift) =>
    /\ \A k \in 1..Len(last.before.payloads) :
         LET p == last.before.payloads[k]
         IN IF C8_Joined(p)
            THEN p.id \in C8_Ids(last.moved)
            ELSE p.id \notin C8_Ids(last.moved) /\ p.id \notin C8_Ids(world.payloads)
    /\ \A k \in 1..Len(last.before.transfers) :
         LET t == last.before.transfers[k]
         IN IF C8_Joined(t)
            THEN (/\ last.before.nodes[t.sourceId].owner = t.owner
                  /\ (t.totalToSend = Infinity \/ t.sentCount + 1 < t.totalToSend))
                 => t.id \in C8_Ids(world.transfers)
            ELSE /\ t.id \notin C8_Ids(world.transfers)
                 /\ t.id \notin last.spawned
                 /\ \A j \in 1..Len(world.payloads) :
                      (world.payloads[j].sourceId = t.sourceId
                       /\ world.payloads[j].targetId = t.targetId)
                      => world.payloads[j].id \in C8_Ids(last.before.payloads)

\* C8 witness: a regenerating tick cut off a transfer that was due to spawn
\* and a payload, and kept a transfer and a payload on edges that remain.
C8_Witness ==
  /\ LastTick /\ last.shift
  /\ \E k \in 1..Len(last.before.transfers) :
       /\ ~C8_Joined(last.before.transfers[k])
       /\ CanSpawn(last.before.transfers[k],
                   last.before.nodes[last.before.transfers[k].sourceId], last.ctx.now)
  /\ \E k \in 1..Len(last.before.payloads) : ~C8_Joined(last.before.payloads[k])
  /\ \E k \in 1..Len(last.before.transfers) :
       C8_Joined(last.before.transfers[k])
       /\ last.before.transfers[k].id \in C8_Ids(world.transfers)
  /\ \E k \in 1..Len(last.before.payloads) :
       C8_Joined(last.before.payloads[k])
       /\ last.before.payloads[k].id \in C8_Ids(world.payloads)

\* the resume step: togglePause leaving PAUSED
C10_Resumes == gameState = "PAUSED" /\ gameState' = "PLAYING"

\* C10: resuming after a pause of duration D (from the clock reading at the
\* pause to the clock reading at the resume) moves nextEventTime, lastAITime,
\* lastTickTime and every transfer's lastSpawnTime forward by exactly D and
\* changes nothing else of the transfers, so each timer is as far from the
\* clock after the resume as it was when the pause began; and while the game
\* is paused the world and the timers do not change.
C10_PauseShift ==
  [][/\ C10_Resumes =>
          LET D == dateNow' - pauseStartTime
          IN /\ D >= 0
             /\ nextEventTime' = nextEventTime + D
             /\ lastAITime' = lastAITime + D
             /\ lastTickTime' = lastTickTime + D
             /\ nextEventTime' - dateNow' = nextEventTime - pauseStartTime
             /\ dateNow' - lastAITime' = pauseStartTime - lastAITime
             /\ dateNow' - lastTickTime' = pauseStartTime - lastTickTime
             /\ Len(world'.transfers) = Len(world.transfers)
             /\ \A k \in 1..Len(world.transfers) :
                  /\ world'.transfers[k].lastSpawnTime
                       = world.transfers[k].lastSpawnTime + D
                  /\ dateNow' - world'.transfers[k].lastSpawnTime
                       = pauseStartTime - world.transfers[k].lastSpawnTime
                  /\ world'.transfers[k]
                       = [world.transfers[k] EXCEPT
                            !.lastSpawnTime = world'.transfers[k].lastSpawnTime]
             /\ world'.nodes = world.nodes /\ world'.payloads = world.payloads
             /\ world'.edges = world.edges
     /\ (gameState = "PLAYING" /\ gameState' = "PAUSED") =>
          /\ pauseStartTime' = dateNow'
          /\ UNCHANGED <<world, nextEventTime, lastAITime, lastTickTime>>
     /\ (gameState = "PAUSED" /\ gameState' = "PAUSED") =>
          UNCHANGED <<world, nextEventTime, lastAITime, lastTickTime, pauseStartTime>>
    ]_vars

\* C10 witness: the game has just resumed after a pause of more than a
\* minute with transfers in the world, one of which has spawned before.
C10_Witness ==
  /\ last.op = "resume"
  /\ last.duration > OCEAN_CURRENT_INTERVAL_MS
  /\ dateNow - last.pausedAt = last.duration
  /\ \E k \in 1..Len(world.transfers) : world.transfers[k].lastSpawnTime > last.duration

----------------------------------------------------------------------------
(* C9: connectivity of the generated and regenerated topologies           *)

\* C9: in every world a generator returned, and after any number of
\* regenerateTopology calls on it, every node is reachable from every other
\* node along the edges.
C9_NoIslands == NoIslands(world.nodes, world.edges)

\* The tutorial map as generateTutorialMap returns it has islands.
C9_TutorialIslands ==
  /\ world.nodes = TutorialNodes("BLUE")
  /\ last.op = "startGame"
  /\ ~NoIslands(world.nodes, world.edges)

\* The worlds of generateMap and generateHoneycombMap, shifted or not, have
\* no islands.
C9_ElsewhereNoIslands ==
  world.nodes # TutorialNodes("BLUE") => NoIslands(world.nodes, world.edges)
----------------------------------------------------------------------------
(* Properties of the win check, the purity of the tick and its events      *)

\* the verdict of checkWinCondition as C11 words it, for the world w
C11_Verdict(w, color) ==
  LET owns == \E id \in NodeIds(w.nodes) : w.nodes[id].owner = color
      rivals == \E id \in NodeIds(w.nodes) : w.nodes[id].owner \notin {color, GRAY}
      assets == Cardinality({id \in NodeIds(w.nodes) : w.nodes[id].owner = color})
                + Cardinality({k \in 1..Len(w.payloads) : w.payloads[k].owner = color})
                + Cardinality({k \in 1..Len(w.transfers) : w.transfers[k].owner = color})
  IN IF ~rivals /\ owns THEN [winner |-> color, isGameOver |-> TRUE]
     ELSE IF assets = 0 THEN [winner |-> "none", isGameOver |-> TRUE]
     ELSE [winner |-> "none", isGameOver |-> FALSE]

\* C11: checkWinCondition(world, color) returns winner = color, game over,
\* exactly when no node belongs to another non-neutral color and color owns
\* a node; otherwise game over without a winner exactly when color's nodes,
\* payloads and transfers together are zero; otherwise not over.  Checked on
\* the verdict every tick of a running game computes for the world it
\* returns, and on what gameLoop stores of it.
C11_WinCondition ==
  (LastTick /\ last.ctx.gameState = "PLAYING") =>
    /\ last.status = C11_Verdict(world, playerColor)
    /\ gameState = (IF ~last.status.isGameOver THEN "PLAYING"
                    ELSE IF last.status.winner = playerColor THEN "VICTORY"
                    ELSE "DEFEAT")
    /\ last.status.isGameOver => winner = last.status.winner

\* C11 witness: the player lost the last node in this tick and has no payload
\* in flight, but a transfer of the player is still listed: not over yet.
C11_Witness ==
  /\ LastTick
  /\ last.ctx.gameState = "PLAYING"
  /\ \A id \in NodeIds(world.nodes) : world.nodes[id].owner # playerColor
  /\ \A k \in 1..Len(world.payloads) : world.payloads[k].owner # playerColor
  /\ \E k \in 1..Len(world.transfers) : world.transfers[k].owner = playerColor
  /\ last.status = [winner |-> "none", isGameOver |-> FALSE]
  /\ gameState = "PLAYING"

\* a victory declared while a payload of another color is still in flight
C11_WitnessVictory ==
  /\ LastTick
  /\ last.status = [winner |-> playerColor, isGameOver |-> TRUE]
  /\ gameState = "VICTORY"
  /\ \E k \in 1..Len(world.payloads) : world.payloads[k].owner # playerColor

\* a defeat declared in the tick that dropped the player's last transfer
C11_WitnessDefeat ==
  /\ LastTick
  /\ last.status = [winner |-> "none", isGameOver |-> TRUE]
  /\ gameState = "DEFEAT"
  /\ \E k \in 1..Len(last.before.transfers) : last.before.transfers[k].owner = playerColor

\* C12: advanceGameState leaves the world passed in unchanged: after the
\* call no payload of the input world has another progress and no transfer
\* of the input world another sentCount or lastSpawnTime.
C12_InputUnchanged ==
  LastTick =>
    /\ \A k \in 1..Len(last.before.payloads) :
         last.input.payloads[k].progress = last.before.payloads[k].progress
    /\ \A k \in 1..Len(last.before.transfers) :
         /\ last.input.transfers[k].sentCount = last.before.transfers[k].sentCount
         /\ last.input.transfers[k].lastSpawnTime = last.before.transfers[k].lastSpawnTime

\* What the call does leave alone: the input's nodes, edges and events, the
\* lists themselves, every other field of a payload or a transfer, and the
\* payloads the ocean current severed.
C12_RestUnchanged ==
  LastTick =>
    /\ last.input.nodes = last.before.nodes
    /\ last.input.edges = last.before.edges
    /\ last.input.latestEvents = last.before.latestEvents
    /\ Len(last.input.payloads) = Len(last.before.payloads)
    /\ Len(last.input.transfers) = Len(last.before.transfers)
    /\ \A k \in 1..Len(last.before.payloads) :
         /\ [last.input.payloads[k] EXCEPT !.progress = 0]
              = [last.before.payloads[k] EXCEPT !.progress = 0]
         /\ (last.shift /\ ~isConnected(world.edges, last.before.payloads[k].sourceId,
                                        last.before.payloads[k].targetId))
              => last.input.payloads[k] = last.before.payloads[k]
    /\ \A k \in 1..Len(last.before.transfers) :
         [last.input.transfers[k] EXCEPT !.sentCount = 0, !.lastSpawnTime = 0]
           = [last.before.transfers[k] EXCEPT !.sentCount = 0, !.lastSpawnTime = 0]

\* the payloads that arrived in the last tick, in payload-list order: at
\* progress >= 1 after the movement, not removed by a collision, and with a
\* target node that exists
C13_Arrivals ==
  SelectSeq(last.moved,
            LAMBDA p : /\ p.progress >= ProgressScale
                       /\ p.id \notin last.removed
                       /\ p.targetId \in NodeIds(world.nodes))

\* C13: the event list is rebuilt every tick: the latestEvents of the world
\* a tick returns holds exactly one IMPACT event for each payload that
\* arrived in that tick, in their order, and nothing else; no event of the
\* input world is carried over.
C13_EventsRebuilt ==
  LastTick =>
    /\ Len(world.latestEvents) = Len(C13_Arrivals)
    /\ \A k \in 1..Len(C13_Arrivals) :
         world.latestEvents[k] = [type |-> "IMPACT",
                                  targetId |-> C13_Arrivals[k].targetId,
                                  color |-> C13_Arrivals[k].owner,
                                  payload |-> C13_Arrivals[k].id]

\* C13 witness: a tick whose input world listed events and in which a
\* payload arrived returned its own events, not those of the input.
C13_Witness ==
  /\ LastTick
  /\ last.before.latestEvents # <<>>
  /\ Len(C13_Arrivals) >= 1
  /\ Len(world.latestEvents) = Len(C13_Arrivals)
  /\ world.latestEvents # last.before.latestEvents

\* a tick without arrivals clears the events of the tick before
C13_WitnessCleared ==
  /\ LastTick
  /\ last.before.latestEvents # <<>>
  /\ world.latestEvents = <<>>

----------------------------------------------------------------------------
(* Properties of the tutorial, of growth and of arrivals                   *)

C14_Ids(seq) == {seq[k].id : k \in 1..Len(seq)}

\* C14: while the phase is TUTORIAL the AI is disabled and the topology is
\* frozen.  A tick changes neither the edge list nor nextEventTime nor
\* lastAITime, whatever the timestamps; no payload and no transfer is
\* severed (a payload leaves only by arriving or colliding, a transfer only
\* by exhausting its quota or losing its source to another owner); and no
\* transfer is added.
C14_TutorialFrozen ==
  (LastTick /\ last.ctx.gameState = "TUTORIAL") =>
    /\ world.edges = last.before.edges
    /\ nextEventTime = last.ctx.nextEventTime
    /\ lastAITime = last.ctx.lastAITime
    /\ ~last.shift /\ ~last.aiRuns
    /\ \A k \in 1..Len(last.before.payloads) :
         LET p == last.before.payloads[k]
         IN \/ p.id \in C14_Ids(world.payloads)
            \/ p.id \in last.removed
            \/ p.progress + p.speed >= ProgressScale
    /\ \A k \in 1..Len(last.before.transfers) :
         LET t == last.before.transfers[k]
         IN \/ t.id \in C14_Ids(world.transfers)
            \/ last.before.nodes[t.sourceId].owner # t.owner
            \/ (t.totalToSend # Infinity /\ t.sentCount + 1 >= t.totalToSend)
    /\ C14_Ids(world.transfers) \subseteq C14_Ids(last.before.transfers)

\* C14 witness: a tutorial tick at a time when the ocean current and the AI
\* would both be due, with a transfer of the player running and a payload
\* in flight: all kept, and the timers untouched.
C14_Witness ==
  /\ LastTick
  /\ last.ctx.gameState = "TUTORIAL"
  /\ last.ctx.now >= last.ctx.nextEventTime
  /\ last.ctx.now - last.ctx.lastAITime
       > DIFFICULTY_SETTINGS[last.ctx.difficulty].actionInterval
  /\ last.before.payloads # <<>>
  /\ last.before.transfers # <<>>
  /\ world.transfers # <<>>
  /\ world.edges = last.before.edges
  /\ \E k \in 1..Len(world.nodes) : world.nodes[k].owner = "RED"

\* C15: neutral nodes never grow: the growth phase of every tick leaves the
\* count and the growthAccumulator of every GRAY node as they were.
C15_NeutralsNeverGrow ==
  LastTick =>
    \A id \in NodeIds(last.before.nodes) :
      last.before.nodes[id].owner = GRAY =>
        /\ last.afterGrowth[id].count = last.before.nodes[id].count
        /\ last.afterGrowth[id].growthAccumulator = last.before.nodes[id].growthAccumulator

\* C15 witness: a tick in which every owned node was credited growth while a
\* neutral node with units stayed as it was.
C15_Witness ==
  /\ LastTick
  /\ \A id \in NodeIds(last.before.nodes) :
       last.before.nodes[id].owner # GRAY =>
         last.afterGrowth[id].growthAccumulator
           > last.before.nodes[id].growthAccumulator
  /\ \E id \in NodeIds(last.before.nodes) :
       /\ last.before.nodes[id].owner = GRAY
       /\ last.before.nodes[id].count > 0
       /\ last.afterGrowth[id].count = last.before.nodes[id].count
       /\ last.afterGrowth[id].growthAccumulator = 0

\* what a node holds, in 1/10000 of a unit: its count and its accumulator
C16_Holding(n) == n.count * (AccScale \div CountScale) + n.growthAccumulator

\* the growth a tick credits to a node of the given count and type
C16_Credit(n) ==
  IF n.type = "HIVE" THEN (calculateGrowthIncrement(n.count) * 16) \div 10
  ELSE calculateGrowthIncrement(n.count)

C17_Rule(cur, p, type) ==
  IF cur.owner = p.owner THEN [owner |-> cur.owner, count |-> cur.count + p.count]
  ELSE LET damage == IF type = "FORTRESS" THEN p.count \div 2 ELSE p.count
       IN IF cur.count - damage < 0
          THEN [owner |-> p.owner, count |-> damage - cur.count]
          ELSE [owner |-> cur.owner, count |-> cur.count - damage]

\* the rule applied to the payloads of a list one after another
RECURSIVE C17_OneByOne(_, _, _)
C17_OneByOne(cur, arrivals, type) ==
  IF arrivals = <<>> THEN cur
  ELSE C17_OneByOne(C17_Rule(cur, Head(arrivals), type), Tail(arrivals), type)

\* the payloads that arrived at node id in the last tick, in list order
C17_ArrivalsAt(id) ==
  SelectSeq(last.moved,
            LAMBDA p : /\ p.targetId = id
                       /\ \E a \in 1..Len(last.arrived) : last.arrived[a] = p.id)

\* C17: the arrivals of one tick at a node are resolved against a running
\* state.  The node's owner and count after the tick are those obtained by
\* applying the reinforce / attack / capture rule to the arriving payloads
\* one after another, in payload-list order, from the node's state after
\* growth and spawning.
C17_RunningState ==
  LastTick =>
    \A id \in NodeIds(world.nodes) :
      LET final == C17_OneByOne([owner |-> last.afterSpawn[id].owner,
                                 count |-> last.afterSpawn[id].count],
                                C17_ArrivalsAt(id), last.afterSpawn[id].type)
      IN /\ world.nodes[id].owner = final.owner
         /\ world.nodes[id].count = final.count

\* C17 witness: three payloads of one color landed on a node of another
\* color holding one unit.  None of them alone would have changed the
\* owner; the first emptied the node, the second captured it and the third
\* reinforced it.
C17_Witness ==
  /\ LastTick
  /\ \E id \in NodeIds(world.nodes) :
       /\ Len(C17_ArrivalsAt(id)) = 3
       /\ \A k \in 1..3 :
            /\ C17_ArrivalsAt(id)[k].owner = "BLUE"
            /\ C17_Rule([owner |-> last.afterSpawn[id].owner,
                         count |-> last.afterSpawn[id].count],
                        C17_ArrivalsAt(id)[k], last.afterSpawn[id].type).owner = "RED"
       /\ last.afterSpawn[id].owner = "RED"
       /\ last.afterSpawn[id].count = CountScale
       /\ world.nodes[id].owner = "BLUE"
       /\ world.nodes[id].count = 2 * CountScale

----------------------------------------------------------------------------
(* Properties of the spawning phase and of the life of a transfer          *)

\* the transfer of the tick's input world with the given id
C18_Input(id) ==
  last.before.transfers[CHOOSE k \in 1..Len(last.before.transfers) :
                          last.before.transfers[k].id = id]

\* the payloads of the input world that the tick's ocean current left
C18_Kept ==
  SelectSeq(last.before.payloads,
            LAMBDA p : ~last.shift \/ isConnected(world.edges, p.sourceId, p.targetId))

\* the transfers that spawned in the last tick, in list order
C18_Spawners ==
  SelectSeq(last.before.transfers, LAMBDA t : t.id \in last.spawned)

\* the spawn condition for transfer t when its source holds `count'
C18_Due(t, count) ==
  /\ last.ctx.now - t.lastSpawnTime > calculateSpawnInterval(count)
  /\ (t.totalToSend = Infinity \/ t.sentCount < t.totalToSend)
  /\ count >= CountScale

\* C18: in one tick each surviving transfer spawns at most one payload, and
\* it spawns one exactly when now - lastSpawnTime exceeds the spawn interval
\* of its source, it has quota left (unbounded, or sentCount < totalToSend)
\* and the source count is >= 1, the source being read as it stands when the
\* transfer's turn comes.  A spawn takes exactly 1 from the source, adds 1 to
\* sentCount, sets lastSpawnTime to now and adds one payload of count 1, at
\* progress 0, owned by the transfer's owner.
C18_SpawnRule ==
  LastTick =>
    /\ \A e \in 1..Len(last.seen) :
         (last.seen[e].id \in last.spawned)
           <=> C18_Due(C18_Input(last.seen[e].id), last.seen[e].count)
    /\ last.spawned \subseteq {last.seen[e].id : e \in 1..Len(last.seen)}
    /\ Len(last.moved) = Len(C18_Kept) + Len(C18_Spawners)
    /\ \A k \in 1..Len(C18_Spawners) :
         LET p == last.moved[Len(C18_Kept) + k]
             t == C18_Spawners[k]
         IN /\ p.count = CountScale
            /\ p.owner = t.owner
            /\ p.sourceId = t.sourceId /\ p.targetId = t.targetId
            /\ p.progress = p.speed
    /\ \A id \in NodeIds(last.afterGrowth) :
         last.afterSpawn[id].count
           = last.afterGrowth[id].count
             - CountScale * Cardinality({k \in 1..Len(C18_Spawners) :
                                           C18_Spawners[k].sourceId = id})
    /\ \A k \in 1..Len(world.transfers) :
         LET t == world.transfers[k]
         IN t.id \in C14_Ids(last.before.transfers) =>
              IF t.id \in last.spawned
              THEN /\ t.sentCount = C18_Input(t.id).sentCount + 1
                   /\ t.lastSpawnTime = last.ctx.now
              ELSE t = C18_Input(t.id)

\* C18 witness: a tick in which one transfer spawned, a second had to wait
\* for its interval, and a third, due and with quota left, found its source
\* empty.
C18_Witness ==
  /\ LastTick
  /\ last.spawned # {}
  /\ \E e \in 1..Len(last.seen) :
       LET t == C18_Input(last.seen[e].id)
       IN /\ t.id \notin last.spawned
          /\ last.ctx.now - t.lastSpawnTime <= calculateSpawnInterval(last.seen[e].count)
          /\ last.seen[e].count >= CountScale
  /\ \E e \in 1..Len(last.seen) :
       LET t == C18_Input(last.seen[e].id)
       IN /\ t.id \notin last.spawned
          /\ last.ctx.now - t.lastSpawnTime > calculateSpawnInterval(last.seen[e].count)
          /\ (t.totalToSend = Infinity \/ t.sentCount < t.totalToSend)
          /\ last.seen[e].count < CountScale

C19_WitnessMerge ==
  /\ last.op = "attack"
  /\ \E c \in 1..Len(last.calls) : \E k \in 1..Len(last.calls[c].before) :
       /\ last.calls[c].before[k].totalToSend # Infinity
       /\ last.calls[c].before[k].sentCount + 1 = last.calls[c].before[k].totalToSend
       /\ last.calls[c].after[k].totalToSend # Infinity
       /\ last.calls[c].after[k].totalToSend > last.calls[c].before[k].totalToSend

\* a transfer of the tick's input world whose source is gone or belongs to
\* another owner than the transfer
C20_Orphaned(t) ==
  \/ t.sourceId \notin NodeIds(last.before.nodes)
  \/ last.before.nodes[t.sourceId].owner # t.owner

\* C20: a transfer is destroyed when the ownership of its source changed.  A
\* transfer whose owner is not the owner of its source node (or whose source
\* does not exist) when a tick starts spawns nothing in that tick and is not
\* in the world the tick returns; and every payload a tick spawns is owned by
\* the owner of the node it leaves.
C20_OwnershipEndsTransfer ==
  LastTick =>
    /\ \A k \in 1..Len(last.before.transfers) :
         C20_Orphaned(last.before.transfers[k]) =>
           /\ last.before.transfers[k].id \notin last.spawned
           /\ last.before.transfers[k].id \notin C14_Ids(world.transfers)
    /\ \A k \in 1..Len(C18_Spawners) :
         last.moved[Len(C18_Kept) + k].owner
           = last.afterSpawn[C18_Spawners[k].sourceId].owner

\* C20 witness: a node that was streaming was captured in one tick (its
\* transfer still listed in the world that tick returned), and the next
\* tick, the last one, dropped the transfer without a spawn although it was
\* due and had quota left.
C20_Witness ==
  /\ LastTick
  /\ \E k \in 1..Len(last.before.transfers) :
       LET t == last.before.transfers[k]
       IN /\ t.sourceId \in NodeIds(last.before.nodes)
          /\ last.before.nodes[t.sourceId].owner # t.owner
          /\ last.before.nodes[t.sourceId].prevOwner = t.owner
          /\ last.before.nodes[t.sourceId].count >= CountScale
          /\ last.ctx.now - t.lastSpawnTime
               > calculateSpawnInterval(last.afterGrowth[t.sourceId].count)
          /\ (t.totalToSend = Infinity \/ t.sentCount < t.totalToSend)
          /\ t.id \notin last.spawned
          /\ t.id \notin C14_Ids(world.transfers)


----------------------------------------------------------------------------
(* Growth accumulator                                                      *)

\* the increment of one tick for a node as it stands before the tick:
\* calculateGrowthIncrement(count, 1/20), times 1.6 for a HIVE
C21_Increment(n) ==
  IF n.type = "HIVE" THEN (GrowthTable[n.count + 1] * 16) \div 10
  ELSE GrowthTable[n.count + 1]

\* C21: fractional growth is carried in growthAccumulator and only whole
\* units are credited.  After every tick every node has
\* 0 <= growthAccumulator < 1, and the growth phase of a tick adds
\* floor(old accumulator + increment) to the count of every owned node (and
\* nothing to a neutral one), the increment being multiplied by 1.6 for a
\* HIVE.
C21_WholeUnits ==
  /\ \A id \in NodeIds(world.nodes) :
       /\ 0 <= world.nodes[id].growthAccumulator
       /\ world.nodes[id].growthAccumulator < AccScale
  /\ LastTick =>
       \A id \in NodeIds(last.before.nodes) :
         LET old == last.before.nodes[id]
             new == last.afterGrowth[id]
         IN new.count - old.count =
              IF old.owner # GRAY
              THEN ((old.growthAccumulator + C21_Increment(old)) \div AccScale) * CountScale
              ELSE 0

\* a HIVE whose accumulator reached 1 only through the bonus: it is credited
\* one unit and keeps the remainder
C21_Witness ==
  /\ LastTick
  /\ \E id \in NodeIds(last.before.nodes) :
       LET old == last.before.nodes[id]
           new == last.afterGrowth[id]
       IN /\ old.type = "HIVE"
          /\ old.owner # GRAY
          /\ old.growthAccumulator + GrowthTable[old.count + 1] < AccScale
          /\ new.count = old.count + CountScale
          /\ new.growthAccumulator > 0
          /\ new.growthAccumulator
               = old.growthAccumulator + C21_Increment(old) - AccScale
          /\ world.nodes[id].growthAccumulator = new.growthAccumulator

\* an owned node below 1 after the increment: nothing is credited, the
\* fraction is kept
C21_WitnessCarry ==
  /\ LastTick
  /\ \E id \in NodeIds(last.before.nodes) :
       LET old == last.before.nodes[id]
           new == last.afterGrowth[id]
       IN /\ old.owner # GRAY
          /\ old.growthAccumulator > 0
          /\ new.count = old.count
          /\ new.growthAccumulator = old.growthAccumulator + C21_Increment(old)

----------------------------------------------------------------------------
(* Ink spreading: captureProgress                                          *)

\* the levels captureProgress can take, in percent
C22_Levels == {k * InkSpreadSpeed : k \in 0..(CaptureFull \div InkSpreadSpeed)}

\* whether one of the payloads of the list, arriving one after another at a
\* node in state cur, changes the node's owner
RECURSIVE C22_ChangesHands(_, _, _)
C22_ChangesHands(cur, arrivals, type) ==
  IF arrivals = <<>> THEN FALSE
  ELSE \/ C17_Rule(cur, Head(arrivals), type).owner # cur.owner
       \/ C22_ChangesHands(C17_Rule(cur, Head(arrivals), type), Tail(arrivals), type)

\* node id was captured in the last tick
C22_Captured(id) ==
  C22_ChangesHands([owner |-> last.afterSpawn[id].owner,
                    count |-> last.afterSpawn[id].count],
                   C17_ArrivalsAt(id), last.afterSpawn[id].type)

\* the state the k-th payload arriving at node id found
RECURSIVE C22_Found(_, _)
C22_Found(id, k) ==
  IF k = 1 THEN NodeState(last.afterSpawn[id])
  ELSE ResolveArrival(C22_Found(id, k - 1), C17_ArrivalsAt(id)[k - 1])

\* arrival resolution gives the same owner and count whatever captureProgress
\* the node shows
C22_InkIgnored ==
  LastTick =>
    \A id \in NodeIds(world.nodes) :
      \A k \in 1..Len(C17_ArrivalsAt(id)) :
        \A level \in C22_Levels :
          LET found == C22_Found(id, k)
              p == C17_ArrivalsAt(id)[k]
              other == ResolveArrival([found EXCEPT !.captureProgress = level], p)
          IN /\ other.owner = ResolveArrival(found, p).owner
             /\ other.count = ResolveArrival(found, p).count

\* C22: captureProgress always stays within [0,1].  It is 0 in the world
\* returned by the tick in which the node is captured; in every tick without
\* a capture of the node it does not decrease and advances by 0.05, clamped
\* to 1, so it is 1 from the 20th tick after the capture on; and the owner
\* and count that arrival resolution computes do not depend on it.
C22_InkSpreads ==
  /\ \A id \in NodeIds(world.nodes) :
       /\ 0 <= world.nodes[id].captureProgress
       /\ world.nodes[id].captureProgress <= CaptureFull
  /\ LastTick =>
       \A id \in NodeIds(world.nodes) :
         /\ (id \in last.captured) = C22_Captured(id)
         /\ IF C22_Captured(id)
            THEN world.nodes[id].captureProgress = 0
            ELSE /\ world.nodes[id].captureProgress
                      >= last.before.nodes[id].captureProgress
                 /\ world.nodes[id].captureProgress
                      = Min(CaptureFull,
                            last.before.nodes[id].captureProgress + InkSpreadSpeed)
         /\ last.sinceCapture[id] >= 20 => world.nodes[id].captureProgress = CaptureFull
  /\ C22_InkIgnored

\* a node captured 20 ticks ago whose ink was not yet full one tick earlier:
\* it reached 1 on the 20th tick after the capture
C22_Witness ==
  /\ LastTick
  /\ \E id \in NodeIds(world.nodes) :
       /\ last.sinceCapture[id] = 20
       /\ last.before.nodes[id].captureProgress = CaptureFull - InkSpreadSpeed
       /\ world.nodes[id].captureProgress = CaptureFull

\* the tick of a capture: two payloads changed the owner of a settled node
\* one after the other, the later one landing on ink at 0; the returned world
\* shows the node at 0
C22_WitnessReset ==
  /\ LastTick
  /\ \E id \in NodeIds(world.nodes) :
       /\ id \in last.captured
       /\ last.before.nodes[id].captureProgress = CaptureFull
       /\ world.nodes[id].captureProgress = 0
       /\ \E k \in 2..Len(C17_ArrivalsAt(id)) :
            /\ C22_Found(id, k).captureProgress = 0
            /\ ResolveArrival(C22_Found(id, k), C17_ArrivalsAt(id)[k]).owner
                 # C22_Found(id, k).owner

----------------------------------------------------------------------------
(* Impact events and the snapshots handed to the GameMap                   *)

\* the event objects of a snapshot
C23_Events(snapshot) ==
  {snapshot.latestEvents[k].payload : k \in 1..Len(snapshot.latestEvents)}

\* C23: an impact event is not persisted beyond the tick that created it.
\* Whatever ticks, attack commands, pauses and resumes happen, a snapshot
\* published with setRenderWorld (by a tick with hasChanges, or by
\* togglePause on resume) holds no event that the snapshot published before
\* it held, so the GameMap processes each event at most once.
C23_PublishedOnce ==
  [][((last'.op = "tick" /\ last'.hasChanges) \/ last'.op = "resume")
       => C23_Events(renderWorld') \cap C23_Events(renderWorld) = {}]_vars

\* the ticks alone publish each event once: a tick that publishes hands over
\* the events it built itself, none of the snapshot before
C23_TicksPublishOnce ==
  [][(last'.op = "tick" /\ last'.hasChanges)
       => /\ renderWorld'.latestEvents = world'.latestEvents
          /\ C23_Events(renderWorld') \cap C23_Events(renderWorld) = {}]_vars

\* a resume that handed the GameMap the events of the last tick before the
\* pause a second time
C23_WitnessRepublished ==
  /\ last.op = "resume"
  /\ renderWorld.latestEvents # <<>>
  /\ renderWorld.latestEvents = last.before.latestEvents

----------------------------------------------------------------------------
(* The phases in which the simulation rests                                *)

C24_Resting == gameState \in {"PAUSED", "MENU", "VICTORY", "DEFEAT"}

\* C24: while the phase is PAUSED, MENU, VICTORY or DEFEAT the world is not
\* modified: a frame of gameLoop performs no tick and a call of handleAttack
\* adds or changes no transfer.  And a tick never runs less than
\* TICK_RATE_MS after the tick before it (after lastTickTimeRef).
C24_WorldRests ==
  [][/\ (C24_Resting /\ last'.op \in {"frame", "tick", "attack"})
          => (last'.op # "tick" /\ world' = world)
     /\ last'.op = "tick" => last'.ctx.now - lastTickTime >= TICK_RATE_MS]_vars

\* a command that would have started a transfer while playing (the player's
\* node, with units to send) was given in a resting phase and left no trace
C24_Witness ==
  /\ last.op = "attack"
  /\ C24_Resting
  /\ last.calls = <<>>
  /\ \E k \in 1..Len(last.asked) :
       /\ world.nodes[last.asked[k].fromId].owner = playerColor
       /\ world.nodes[last.asked[k].fromId].count >= 2 * CountScale
       /\ existingTransferIndex(world.transfers, last.asked[k].fromId,
                                last.asked[k].toId) = 0

\* a frame came while the game was paused, at a time at which the tick
\* would have been due
C24_WitnessPausedFrame ==
  /\ last.op = "frame"
  /\ gameState = "PAUSED"
  /\ dateNow - lastTickTime >= TICK_RATE_MS
  /\ world.payloads # <<>>

\* a frame came while playing, too early for the next tick
C24_WitnessEarlyFrame ==
  /\ last.op = "frame"
  /\ gameState = "PLAYING"
  /\ steps.ticks >= 1
  /\ dateNow - lastTickTime < TICK_RATE_MS

\* ---------------------------------------------------------------------------
\* C25  The phase after a tick.  While PLAYING, a tick ends the game exactly as
\* checkWinCondition reports on the world it produced: VICTORY with a winner,
\* DEFEAT when the game is over without one, PLAYING otherwise.  While in the
\* TUTORIAL that report is not used: the phase becomes VICTORY only when step 8
\* is the active step and tutorial-enemy is BLUE, and stays TUTORIAL otherwise.
\* After VICTORY or DEFEAT the world stays as it is until startGame.
C25_Over == {"VICTORY", "DEFEAT"}

C25_PhaseAfterTick(phase, step, w, color) ==
  IF phase = "TUTORIAL"
  THEN IF step = 8 /\ w.nodes[TutorialEnemy].owner = "BLUE" THEN "VICTORY" ELSE "TUTORIAL"
  ELSE IF checkWinCondition(w, color).winner # "none" THEN "VICTORY"
  ELSE IF checkWinCondition(w, color).isGameOver THEN "DEFEAT"
  ELSE phase

C25_PhaseRule ==
  [][/\ last'.op = "tick"
          => gameState' = C25_PhaseAfterTick(gameState, tutorialStep, world', playerColor)
     /\ (gameState # gameState' /\ gameState' \in C25_Over) => last'.op = "tick"
     /\ (gameState \in C25_Over \cup {"MENU"} /\ last'.op # "startGame")
          => world' = world]_vars

\* the tutorial is won: a tick at step 8 lands the player on tutorial-enemy
C25_Witness ==
  /\ last.op = "tick"
  /\ last.ctx.gameState = "TUTORIAL"
  /\ last.ctx.tutorialStep = 8
  /\ last.before.nodes[TutorialEnemy].owner = "RED"
  /\ gameState = "VICTORY"
  /\ winner = "BLUE"

\* a tutorial tick after which checkWinCondition would report a winner, and
\* the phase is still TUTORIAL because the active step is not step 8
C25_WitnessNotConsulted ==
  /\ last.op = "tick"
  /\ last.ctx.gameState = "TUTORIAL"
  /\ last.ctx.tutorialStep = 7
  /\ last.status.isGameOver
  /\ gameState = "TUTORIAL"

\* a game lost on a tick, a game won on a tick
C25_WitnessDefeat ==
  /\ last.op = "tick"
  /\ last.ctx.gameState = "PLAYING"
  /\ gameState = "DEFEAT"

C25_WitnessVictory ==
  /\ last.op = "tick"
  /\ last.ctx.gameState = "PLAYING"
  /\ gameState = "VICTORY"

\* frames and commands after the end of a game
C25_WitnessRests ==
  /\ gameState \in C25_Over
  /\ last.op \in {"frame", "attack"}

\* ---------------------------------------------------------------------------
\* C26  The order of the phases of one tick: topology shift, growth,
\* spawning, AI, then movement, collision and arrival.
C26_OldPayloads == {last.before.payloads[k].id : k \in 1..Len(last.before.payloads)}
C26_OldTransfers == {last.before.transfers[k].id : k \in 1..Len(last.before.transfers)}

\* the payloads spawned by the last tick, as they were after the movement
C26_Spawned == SelectSeq(last.moved, LAMBDA p : p.id \notin C26_OldPayloads)

\* the transfers the AI created in the last tick
C26_Created == SelectSeq(world.transfers, LAMBDA t : t.id \notin C26_OldTransfers)

\* the transfers of the input world that spawned from node id in the last tick
C26_SpawnsFrom(id) ==
  Cardinality({k \in 1..Len(last.before.transfers) :
                 /\ last.before.transfers[k].sourceId = id
                 /\ last.before.transfers[k].id \in last.spawned})

\* the count of a node of the input world once the tick's growth is credited
C26_Grown(n) ==
  IF n.owner = GRAY THEN n.count
  ELSE n.count + ((n.growthAccumulator + C21_Increment(n)) \div AccScale) * CountScale

\* C26: a payload spawned in a tick has moved once when the tick returns (its
\* progress is its speed); a transfer the AI created in a tick has spawned
\* nothing when the tick returns, and every payload spawned in the tick comes
\* from a transfer of the input world; the arrivals of the tick are resolved
\* against the node's count with the tick's growth already credited (less the
\* units it spawned); and a transfer whose edge the tick's topology shift
\* took away neither spawns nor stays.
C26_PhaseOrder ==
  LastTick =>
    /\ \A k \in 1..Len(C26_Spawned) : C26_Spawned[k].progress = C26_Spawned[k].speed
    /\ \A k \in 1..Len(world.payloads) :
         world.payloads[k].id \notin C26_OldPayloads
           => world.payloads[k].progress = world.payloads[k].speed
    /\ \A k \in 1..Len(C26_Created) :
         /\ last.aiRuns
         /\ C26_Created[k].sentCount = 0
         /\ C26_Created[k].id \notin last.spawned
    /\ last.spawned \subseteq C26_OldTransfers
    /\ Len(C26_Spawned) = Cardinality(last.spawned)
    /\ \A id \in NodeIds(world.nodes) :
         LET final == C17_OneByOne(
                        [owner |-> last.before.nodes[id].owner,
                         count |-> C26_Grown(last.before.nodes[id])
                                     - C26_SpawnsFrom(id) * CountScale],
                        C17_ArrivalsAt(id), last.before.nodes[id].type)
         IN /\ world.nodes[id].owner = final.owner
            /\ world.nodes[id].count = final.count
    /\ \A k \in 1..Len(last.before.transfers) :
         LET t == last.before.transfers[k]
         IN (last.shift /\ ~isConnected(world.edges, t.sourceId, t.targetId))
              => /\ t.id \notin last.spawned
                 /\ \A j \in 1..Len(world.transfers) : world.transfers[j].id # t.id

\* a tick in which a transfer spawned and its payload is under way
C26_WitnessSpawn ==
  /\ LastTick
  /\ \E k \in 1..Len(world.payloads) :
       /\ world.payloads[k].id \notin C26_OldPayloads
       /\ world.payloads[k].progress > 0

\* a tick in which the AI created a transfer from a node that could have
\* spawned at once
C26_WitnessAI ==
  /\ LastTick
  /\ Len(C26_Created) > 0
  /\ \E k \in 1..Len(C26_Created) :
       world.nodes[C26_Created[k].sourceId].count >= CountScale

\* a tick in which a node was credited a unit of growth and was landed on:
\* the outcome differs from the one with the arrival resolved first
C26_Witness ==
  /\ LastTick
  /\ \E id \in NodeIds(world.nodes) :
       /\ C26_Grown(last.before.nodes[id]) > last.before.nodes[id].count
       /\ Len(C17_ArrivalsAt(id)) > 0
       /\ C17_OneByOne([owner |-> last.before.nodes[id].owner,
                        count |-> last.before.nodes[id].count],
                       C17_ArrivalsAt(id), last.before.nodes[id].type).owner
            # world.nodes[id].owner

\* a tick whose topology shift took the edge of a transfer that was due to spawn
C26_WitnessSevered ==
  /\ LastTick
  /\ last.shift
  /\ \E k \in 1..Len(last.before.transfers) :
       LET t == last.before.transfers[k]
       IN /\ ~isConnected(world.edges, t.sourceId, t.targetId)
          /\ CanSpawn(t, last.afterGrowth[t.sourceId], last.ctx.now)

\* ---------------------------------------------------------------------------
\* C27  regenerateTopology keeps the PERMANENT edges and draws the RANDOM ones
\* afresh.
C27_Random(edges) == SelectSeq(edges, LAMBDA e : e.type = "RANDOM")

C27_Pairs(edges) == {{edges[k].source, edges[k].target} : k \in 1..Len(edges)}

\* a pair of nodes regenerateTopology may draw: closer than 400 and not
\* joined by a PERMANENT edge
C27_Candidate(nodes, edges, pair) ==
  \E s, t \in NodeIds(nodes) :
    /\ pair = {s, t}
    /\ s # t
    /\ Dist2(nodes[s], nodes[t]) < 400 * 400
    /\ \A k \in 1..Len(edges) :
         edges[k].type = "PERMANENT" => {edges[k].source, edges[k].target} # pair

\* a step that regenerates the topology: the shift on its own or within a tick
C27_Shifts ==
  \/ last'.op = "regenerateTopology"
  \/ last'.op = "tick" /\ last'.shift

\* C27: a topology shift leaves the PERMANENT edges as they were, in number
\* and order; every RANDOM edge after it, the ones that were there before
\* included, joins a pair that is a candidate; and the RANDOM edges after it
\* are at most floor(nodeCount * 0.5).
C27_PermanentKept ==
  [][C27_Shifts =>
       /\ SelectSeq(world'.edges, LAMBDA e : e.type = "PERMANENT")
            = SelectSeq(world.edges, LAMBDA e : e.type = "PERMANENT")
       /\ \A pair \in C27_Pairs(C27_Random(world'.edges)) :
            C27_Candidate(world.nodes, world.edges, pair)
       /\ \A pair \in C27_Pairs(C27_Random(world.edges)) :
            pair \in C27_Pairs(world'.edges)
              => /\ pair \in C27_Pairs(C27_Random(world'.edges))
                 /\ C27_Candidate(world.nodes, world.edges, pair)
       /\ Len(C27_Random(world'.edges)) <= Len(world.nodes) \div 2
       /\ Len(C27_Random(world'.edges)) = Cardinality(C27_Pairs(C27_Random(world'.edges)))]_vars

\* the edges generateMap gave the nodes of the running game (they depend on
\* the positions only)
C27_FirstEdges == generateEdgesForNodes(world.nodes)

\* a game on a generated map after a shift: the PERMANENT edges are those the
\* map started with, one of the RANDOM edges it started with is gone and
\* another one is there, drawn again
C27_Witness ==
  /\ last.op = "regenerateTopology"
  /\ SelectSeq(world.edges, LAMBDA e : e.type = "PERMANENT")
       = SelectSeq(C27_FirstEdges, LAMBDA e : e.type = "PERMANENT")
  /\ Len(C27_Random(C27_FirstEdges)) > 0
  /\ \E pair \in C27_Pairs(C27_Random(C27_FirstEdges)) : pair \notin C27_Pairs(world.edges)
  /\ \E pair \in C27_Pairs(C27_Random(C27_FirstEdges)) : pair \in C27_Pairs(world.edges)

\* ---------------------------------------------------------------------------
\* C28  No two edges of the world join the same pair of nodes, in either
\* direction, and no edge joins a node to itself: on every generated map
\* (random, tutorial, honeycomb) and after every topology shift.
C28_SimpleGraph ==
  /\ \A k \in 1..Len(world.edges) : world.edges[k].source # world.edges[k].target
  /\ \A j, k \in 1..Len(world.edges) :
       j # k => {world.edges[j].source, world.edges[j].target}
                  # {world.edges[k].source, world.edges[k].target}

\* a shift that drew RANDOM edges on a map where a PERMANENT edge joins a
\* pair in range, which the shuffle offered too
C28_Witness ==
  /\ last.op = "regenerateTopology"
  /\ \E k \in 1..Len(world.edges) : world.edges[k].type = "RANDOM"
  /\ \E k \in 1..Len(world.edges) :
       /\ world.edges[k].type = "PERMANENT"
       /\ Dist2(world.nodes[world.edges[k].source], world.nodes[world.edges[k].target])
            < 400 * 400

\* the maps as generated: the tutorial map and a random map
C28_WitnessTutorial ==
  /\ last.op = "startGame"
  /\ gameState = "TUTORIAL"
  /\ Len(world.edges) > 2

C28_WitnessGenerated ==
  /\ last.op = "startGame"
  /\ gameState = "PLAYING"
  /\ \E k \in 1..Len(world.edges) : world.edges[k].type = "RANDOM"

\* ---------------------------------------------------------------------------
\* C29  A tick that reports hasChanges = false changed nothing that is drawn
\* from the published world.
C29_Shown(n) == [owner |-> n.owner, count |-> n.count, captureProgress |-> n.captureProgress]

C29_PayloadIds(w) == {w.payloads[k].id : k \in 1..Len(w.payloads)}

\* C29: after a tick whose hasChanges is false the world has the owners,
\* counts and captureProgress values of the input world, its edge list, its
\* set of payload ids and no events; and the world last published, which
\* such a tick leaves in place, shows the owners, counts and captureProgress
\* values and the edge list of the current world.
C29_NothingLost ==
  (LastTick /\ ~last.hasChanges) =>
    /\ \A id \in NodeIds(world.nodes) :
         /\ C29_Shown(world.nodes[id]) = C29_Shown(last.before.nodes[id])
         /\ C29_Shown(world.nodes[id]) = C29_Shown(renderWorld.nodes[id])
    /\ Len(world.nodes) = Len(last.before.nodes)
    /\ world.edges = last.before.edges
    /\ world.edges = renderWorld.edges
    /\ C29_PayloadIds(world) = C29_PayloadIds(last.before)
    /\ world.latestEvents = <<>>

\* a tick without changes in which payloads moved and a node's growth
\* accumulator advanced
C29_Witness ==
  /\ LastTick
  /\ ~last.hasChanges
  /\ Len(world.payloads) > 0
  /\ \E k \in 1..Len(world.payloads) :
       world.payloads[k].progress > last.before.payloads[k].progress
  /\ \E id \in NodeIds(world.nodes) :
       world.nodes[id].growthAccumulator > last.before.nodes[id].growthAccumulator

\* a tick without changes that ended a transfer
C29_WitnessTransferDropped ==
  /\ LastTick
  /\ ~last.hasChanges
  /\ Len(world.transfers) < Len(last.before.transfers)

\* ---------------------------------------------------------------------------
\* C30  The sources of the AI's transfers.  Every transfer the AI created in
\* a tick starts from a node that, as the AI found it (after the tick's
\* growth and spawning), was owned by one of the playable colors, held ten
\* units or more and was not the player's unless the auto-pilot was on; the
\* transfer is owned by that node's owner and is to send floor(count / 2)
\* units.
C30_Playable == {"RED", "BLUE", "GREEN", "PURPLE", "ORANGE"}

C30_Sources ==
  LastTick =>
    \A k \in 1..Len(C26_Created) :
      LET t == C26_Created[k]
          source == last.afterSpawn[t.sourceId]
      IN /\ source.owner \in C30_Playable
         /\ source.count >= 10 * CountScale
         /\ (source.owner = last.ctx.playerColor => last.ctx.isPlayerAutoPilot)
         /\ t.owner = source.owner
         /\ t.totalToSend * 2 * CountScale <= source.count
         /\ (t.totalToSend + 1) * 2 * CountScale > source.count
         /\ t.sentCount = 0

\* the AI sent half of ten and a half units: five
C30_Witness ==
  /\ LastTick
  /\ \E k \in 1..Len(C26_Created) :
       /\ last.afterSpawn[C26_Created[k].sourceId].count = 21
       /\ C26_Created[k].totalToSend = 5

\* the auto-pilot moved for the player
C30_WitnessAutoPilot ==
  /\ LastTick
  /\ \E k \in 1..Len(C26_Created) : C26_Created[k].owner = last.ctx.playerColor

\* the AI ran and left the node alone that held ten units when the tick
\* began and nine once its stream had spawned
C30_WitnessWeakened ==
  /\ LastTick
  /\ last.aiRuns
  /\ last.before.nodes[1].count = 10 * CountScale
  /\ last.afterSpawn[1].count = 9 * CountScale
  /\ Len(C26_Created) = 0

\* the AI moved from the node that held nine units when the tick began and
\* ten once its growth was credited
C30_WitnessGrown ==
  /\ LastTick
  /\ last.before.nodes[1].count = 9 * CountScale
  /\ \E k \in 1..Len(C26_Created) : C26_Created[k].sourceId = 1

\* ---------------------------------------------------------------------------
\* C31  The difficulty table bounds the AI.
C31_Level == DIFFICULTY_SETTINGS[last.ctx.difficulty]

\* the AI's turn has come: the interval of the level has passed, strictly
C31_IntervalPassed == last.ctx.now - last.ctx.lastAITime > C31_Level.actionInterval

\* C31: a tick creates at most maxActionsPerTick transfers for the AI, all
\* colors together; it creates some, or moves lastAITime, only when more than
\* actionInterval has passed since lastAITime; and when that much has passed
\* in a game that is not the tutorial, lastAITime becomes the time of the
\* tick, whether or not the AI moved.
C31_Bounded ==
  LastTick =>
    /\ (C31_Level.maxActionsPerTick # Infinity
          => Len(C26_Created) <= C31_Level.maxActionsPerTick)
    /\ Len(last.moves) >= Len(C26_Created)
    /\ (Len(C26_Created) > 0 \/ Len(last.moves) > 0 \/ lastAITime # last.ctx.lastAITime)
          => C31_IntervalPassed
    /\ (C31_IntervalPassed /\ last.ctx.gameState # "TUTORIAL") => lastAITime = last.ctx.now
    /\ ~C31_IntervalPassed => lastAITime = last.ctx.lastAITime

\* at level 1 the auto-pilot is on and both colors hold a node strong enough
\* to act: one transfer was created
C31_Witness ==
  /\ LastTick
  /\ last.ctx.difficulty = 1
  /\ last.ctx.isPlayerAutoPilot
  /\ \A id \in {1, 2} : last.afterSpawn[id].count >= 10 * CountScale
  /\ Len(C26_Created) = 1

\* the AI ran without a move and lastAITime is the time of the tick
C31_WitnessNoMove ==
  /\ LastTick
  /\ C31_IntervalPassed
  /\ Len(last.moves) = 0
  /\ lastAITime = last.ctx.now

\* the tick came when exactly actionInterval had passed: the AI did not run
C31_WitnessTooEarly ==
  /\ LastTick
  /\ last.ctx.now - last.ctx.lastAITime = C31_Level.actionInterval
  /\ lastAITime = last.ctx.lastAITime

\* ---------------------------------------------------------------------------
\* C32  The AI and the enemy FORTRESS.
\* the AI's moves of the last tick, with the nodes as the AI found them
C32_Moves ==
  {[source |-> last.afterSpawn[last.moves[k].from],
    target |-> last.afterSpawn[last.moves[k].to]] : k \in 1..Len(last.moves)}

\* C32: no move of the AI goes from a node onto a FORTRESS of another color
\* that holds half the source's count or more, whatever the jitter and
\* whether or not the source is saturated.
C32_FortressFeared ==
  LastTick =>
    \A move \in C32_Moves :
      (move.target.type = "FORTRESS" /\ move.target.owner \notin {GRAY, move.source.owner})
        => move.source.count - 2 * move.target.count > 0

\* the AI attacked a FORTRESS of nine and a half units from a node of twenty:
\* one unit more than twice the FORTRESS's count
C32_Witness ==
  /\ LastTick
  /\ \E move \in C32_Moves :
       /\ move.target.type = "FORTRESS"
       /\ move.target.owner = "BLUE"
       /\ move.source.count - 2 * move.target.count = CountScale

\* the AI ran, saturated, next to a FORTRESS holding exactly half its count,
\* and did not move
C32_WitnessHeld ==
  /\ LastTick
  /\ last.aiRuns
  /\ last.ctx.difficulty = 6
  /\ last.afterSpawn[2].type = "FORTRESS"
  /\ last.afterSpawn[2].owner = "BLUE"
  /\ last.afterSpawn[1].count = 140 * CountScale
  /\ 2 * last.afterSpawn[2].count = last.afterSpawn[1].count
  /\ last.moves = <<>>

\* ---------------------------------------------------------------------------
\* C33  The score of an enemy target that is no FORTRESS, for a source that
\* is not saturated (count / capacity <= 0.9), before the jitter.
C33_Applies(source, target) ==
  /\ source.owner # GRAY
  /\ target.owner \notin {GRAY, source.owner}
  /\ target.type # "FORTRESS"
  /\ source.count * 10 <= 9 * source.capacity * CountScale

\* the score with a deficit of up to and including ten called small
C33_Stated(diff) ==
  IF diff > 0 THEN 50 * ScoreScale + diff * ScorePerCount
  ELSE IF diff >= 0 - 10 * CountScale THEN 0 - 20 * ScoreScale
  ELSE 0 - 1000 * ScoreScale

\* the score with a deficit of less than ten called small
C33_Coded(diff) ==
  IF diff > 0 THEN 50 * ScoreScale + diff * ScorePerCount
  ELSE IF diff > 0 - 10 * CountScale THEN 0 - 20 * ScoreScale
  ELSE 0 - 1000 * ScoreScale

\* C33 as stated: the score is 50 + diff when diff = source.count -
\* target.count > 0, -20 when -10 <= diff <= 0, and -1000 otherwise.
C33_ScoreTable ==
  \A s, t \in NodeIds(world.nodes) :
    C33_Applies(world.nodes[s], world.nodes[t])
      => BaseScore(world.nodes[s], world.nodes[t])
           = C33_Stated(world.nodes[s].count - world.nodes[t].count)

\* C33 as the code has it: the score is 50 + diff when diff > 0, -20 when
\* -10 < diff <= 0 (a deficit of less than ten), and -1000 when diff <= -10:
\* a deficit of exactly ten is scored -1000.
C33_ScoreTableStrict ==
  \A s, t \in NodeIds(world.nodes) :
    C33_Applies(world.nodes[s], world.nodes[t])
      => BaseScore(world.nodes[s], world.nodes[t])
           = C33_Coded(world.nodes[s].count - world.nodes[t].count)

\* the scores differ for a deficit of exactly ten only
C33_OnlyAtTen ==
  \A s, t \in NodeIds(world.nodes) :
    (/\ C33_Applies(world.nodes[s], world.nodes[t])
     /\ world.nodes[s].count - world.nodes[t].count # 0 - 10 * CountScale)
      => BaseScore(world.nodes[s], world.nodes[t])
           = C33_Stated(world.nodes[s].count - world.nodes[t].count)

\* the three cases of the table, in worlds the AI ran on
C33_WitnessWinning ==
  /\ LastTick /\ last.aiRuns
  /\ C33_Applies(last.afterSpawn[1], last.afterSpawn[2])
  /\ last.afterSpawn[1].count > last.afterSpawn[2].count

C33_WitnessSmallDeficit ==
  /\ LastTick /\ last.aiRuns
  /\ C33_Applies(last.afterSpawn[1], last.afterSpawn[2])
  /\ last.afterSpawn[1].count - last.afterSpawn[2].count = 1 - 10 * CountScale

C33_WitnessDeficitOfTen ==
  /\ LastTick /\ last.aiRuns
  /\ C33_Applies(last.afterSpawn[1], last.afterSpawn[2])
  /\ last.afterSpawn[1].count - last.afterSpawn[2].count = 0 - 10 * CountScale
  /\ BaseScore(last.afterSpawn[1], last.afterSpawn[2]) = 0 - 1000 * ScoreScale

\* ---------------------------------------------------------------------------
\* C34  The threshold for action: 10 for a saturated source (count / capacity
\* > 0.9), 30 otherwise.
C34_Saturated(source) == source.count * 10 > 9 * source.capacity * CountScale

C34_Threshold(source) == IF C34_Saturated(source) THEN 10 * ScoreScale ELSE 30 * ScoreScale

\* the nodes joined to node id by an edge of the world
C34_Neighbours(id) ==
  {t \in NodeIds(world.nodes) :
     \E k \in 1..Len(world.edges) :
       {world.edges[k].source, world.edges[k].target} = {id, t}}

\* C34: every move of the AI goes to a neighbour whose score can exceed the
\* source's threshold with a jitter below 20; a source that is not saturated
\* never moves onto an enemy node that is no FORTRESS and holds as many units
\* as the source or more; and a source that acts without hesitation (level
\* 6), holds ten units or more and has a neighbour scored above 50 always
\* moves.
C34_ThresholdRule ==
  LastTick =>
    /\ \A move \in C32_Moves :
         /\ BaseScore(move.source, move.target) + 20 * ScoreScale - 1
              > C34_Threshold(move.source)
         /\ (/\ ~C34_Saturated(move.source)
             /\ move.target.owner \notin {GRAY, move.source.owner}
             /\ move.target.type # "FORTRESS")
              => move.target.count < move.source.count
    /\ \A id \in NodeIds(world.nodes) :
         (/\ last.aiRuns
          /\ last.ctx.difficulty = 6
          /\ last.afterSpawn[id].owner \notin {GRAY, last.ctx.playerColor}
          /\ last.afterSpawn[id].count >= 10 * CountScale
          /\ \E t \in C34_Neighbours(id) :
               BaseScore(last.afterSpawn[id], last.afterSpawn[t]) > 50 * ScoreScale)
           => \E k \in 1..Len(last.moves) : last.moves[k].from = id

\* a source that is not saturated moved on a score between 30 and 50
C34_Witness ==
  /\ LastTick
  /\ \E move \in C32_Moves :
       /\ ~C34_Saturated(move.source)
       /\ BaseScore(move.source, move.target) <= 50 * ScoreScale
       /\ BaseScore(move.source, move.target) > 30 * ScoreScale - 20 * ScoreScale

\* a saturated source moved on a score no other source could move on
C34_WitnessSaturated ==
  /\ LastTick
  /\ \E move \in C32_Moves :
       /\ C34_Saturated(move.source)
       /\ BaseScore(move.source, move.target) + 20 * ScoreScale - 1 <= 30 * ScoreScale

\* the AI ran without hesitation next to an enemy holding as much as the
\* source, and did not move
C34_WitnessEqual ==
  /\ LastTick /\ last.aiRuns
  /\ last.ctx.difficulty = 6
  /\ last.afterSpawn[2].owner = "BLUE"
  /\ last.afterSpawn[2].type = "DEFAULT"
  /\ last.afterSpawn[2].count = last.afterSpawn[1].count
  /\ last.moves = <<>>

\* a score above 50 at level 6: the move was made
C34_WitnessSure ==
  /\ LastTick
  /\ last.ctx.difficulty = 6
  /\ \E move \in C32_Moves : BaseScore(move.source, move.target) > 50 * ScoreScale

\* ---------------------------------------------------------------------------
\* C35  An accepted command leaves a transfer of the player's.
\* a call of handleAttack that got past every check: the source is the
\* player's and the amount is at least one
C35_Accepted(call) ==
  /\ call.fromId \in NodeIds(call.nodes)
  /\ call.toId \in NodeIds(call.nodes)
  /\ call.nodes[call.fromId].owner = playerColor
  /\ (call.isContinuous \/ call.nodes[call.fromId].count >= 2 * CountScale)

\* the transfers of a list for the pair of a call that the player owns
C35_Own(transfers, call) ==
  {k \in 1..Len(transfers) :
     /\ transfers[k].sourceId = call.fromId
     /\ transfers[k].targetId = call.toId
     /\ transfers[k].owner = playerColor}

\* C35: after an accepted command the list holds a transfer for (fromId,
\* toId) owned by the player (which the next tick, finding the source still
\* the player's, does not drop for its owner), also when a transfer of the
\* node's previous owner for the same pair is still in the list.
C35_CommandKept ==
  LastAttack =>
    \A c \in 1..Len(last.calls) :
      C35_Accepted(last.calls[c]) => C35_Own(last.calls[c].after, last.calls[c]) # {}

\* what holds instead: the command is kept unless the list holds a transfer
\* for the pair, and the first one it holds is not the player's
C35_KeptUnlessStale ==
  LastAttack =>
    \A c \in 1..Len(last.calls) :
      LET call == last.calls[c]
          hits == C4_Matches(call.before, call.fromId, call.toId)
      IN C35_Accepted(call) =>
           \/ C35_Own(call.after, call) # {}
           \/ /\ hits # {}
              /\ call.before[CHOOSE k \in hits : \A j \in hits : k <= j].owner # playerColor

\* the command merged into the previous owner's transfer
C35_WitnessMerged ==
  /\ LastAttack
  /\ \E c \in 1..Len(last.calls) :
       /\ C35_Accepted(last.calls[c])
       /\ C35_Own(last.calls[c].after, last.calls[c]) = {}
       /\ last.calls[c].after # last.calls[c].before

\* and the next tick dropped it: the player holds the source and has no
\* transfer from it
C35_WitnessLost ==
  /\ LastTick
  /\ world.nodes[1].owner = "BLUE"
  /\ last.before.nodes[1].owner = "BLUE"
  /\ Len(last.before.transfers) = 1
  /\ last.before.transfers[1].owner = "RED"
  /\ last.before.transfers[1].totalToSend = Infinity
  /\ world.transfers = <<>>

\* a command on the captured node with no stale transfer in the list is kept
C35_WitnessKept ==
  /\ LastAttack
  /\ \E c \in 1..Len(last.calls) :
       /\ last.calls[c].fromId = 1
       /\ C35_Accepted(last.calls[c])
       /\ C35_Own(last.calls[c].after, last.calls[c]) # {}

\* ---------------------------------------------------------------------------
\* C36  No tick makes a node neutral.
C36_Neutral(nodes) == {id \in NodeIds(nodes) : nodes[id].owner = GRAY}

\* every transfer and every payload belongs to a playable color
C36_Playable ==
  /\ \A k \in 1..Len(world.transfers) : world.transfers[k].owner \in PlayableSet
  /\ \A k \in 1..Len(world.payloads) : world.payloads[k].owner \in PlayableSet

\* C36: transfers and payloads are owned by playable colors, and a tick
\* makes no node neutral: an owned node stays owned, the neutral nodes after
\* the tick are among those before it, and a node neutral before and after
\* has not gained count.
C36_NoNewNeutral ==
  /\ C36_Playable
  /\ LastTick =>
       /\ NodeIds(world.nodes) = NodeIds(last.before.nodes)
       /\ \A id \in NodeIds(world.nodes) :
            last.before.nodes[id].owner # GRAY => world.nodes[id].owner \in PlayableSet
       /\ C36_Neutral(world.nodes) \subseteq C36_Neutral(last.before.nodes)
       /\ \A id \in C36_Neutral(world.nodes) :
            world.nodes[id].count <= last.before.nodes[id].count

\* a tick in which a node changed hands between two colors
C36_Witness ==
  /\ LastTick
  /\ \E id \in NodeIds(world.nodes) :
       /\ last.before.nodes[id].owner \in PlayableSet
       /\ world.nodes[id].owner \in PlayableSet
       /\ world.nodes[id].owner # last.before.nodes[id].owner

\* a neutral node was hit and stayed neutral
C36_WitnessNeutralHit ==
  /\ LastTick
  /\ \E id \in C36_Neutral(world.nodes) :
       world.nodes[id].count < last.before.nodes[id].count

\* a neutral node was taken by a color
C36_WitnessNeutralTaken ==
  /\ LastTick
  /\ \E id \in C36_Neutral(last.before.nodes) : world.nodes[id].owner # GRAY

\* ---------------------------------------------------------------------------
\* C37  The payloads a tick returns are single units on their way.
C37_OnItsWay(p) ==
  /\ p.count = CountScale
  /\ p.owner \in PlayableSet
  /\ p.speed > 0
  /\ 0 < p.progress
  /\ p.progress < ProgressScale

\* C37: every payload of the world a tick returns has count 1, a playable
\* owner, a positive speed and a progress strictly between 0 and 1; a
\* payload the tick moved to progress >= 1 is not in the returned world.
C37_InFlight ==
  LastTick =>
    /\ \A k \in 1..Len(world.payloads) : C37_OnItsWay(world.payloads[k])
    /\ \A k \in 1..Len(last.moved) :
         last.moved[k].progress >= ProgressScale =>
           \A j \in 1..Len(world.payloads) : world.payloads[j].id # last.moved[k].id

\* a tick that spawned a payload (it has made its first step) and consumed
\* one that reached its target, leaving another in flight
C37_Witness ==
  /\ LastTick
  /\ \E k \in 1..Len(world.payloads) : world.payloads[k].progress = world.payloads[k].speed
  /\ \E k \in 1..Len(last.moved) : last.moved[k].progress >= ProgressScale
  /\ \E k \in 1..Len(world.payloads) : world.payloads[k].progress > world.payloads[k].speed

\* ---------------------------------------------------------------------------
\* C38  Collisions remove payloads in pairs.
\* the positions in newPayloads of the payloads from s to t that the
\* collision pass of the last tick removed
C38_RemovedFrom(s, t) ==
  {k \in 1..Len(last.moved) :
     /\ last.moved[k].id \in last.removed
     /\ last.moved[k].sourceId = s
     /\ last.moved[k].targetId = t}

\* C38: a payload is matched with at most one opposing payload, so on every
\* edge the collision pass of a tick removes as many payloads that started
\* at one end as payloads that started at the other; the surplus of the
\* larger side survives.
C38_OneToOne ==
  LastTick =>
    \A s, t \in NodeIds(world.nodes) :
      Cardinality(C38_RemovedFrom(s, t)) = Cardinality(C38_RemovedFrom(t, s))

\* what holds instead: the collision pass removes a payload only together
\* with a removed payload that flew against it
C38_NeverAlone ==
  LastTick =>
    \A s, t \in NodeIds(world.nodes) :
      C38_RemovedFrom(s, t) # {} => C38_RemovedFrom(t, s) # {}

\* one payload took two opposing payloads with it
C38_WitnessSurplus ==
  /\ LastTick
  /\ \E s, t \in NodeIds(world.nodes) :
       /\ Cardinality(C38_RemovedFrom(s, t)) = 1
       /\ Cardinality(C38_RemovedFrom(t, s)) = 2

\* a collision of one against one
C38_WitnessPair ==
  /\ LastTick
  /\ \E s, t \in NodeIds(world.nodes) :
       /\ Cardinality(C38_RemovedFrom(s, t)) = 1
       /\ Cardinality(C38_RemovedFrom(t, s)) = 1

\* ---------------------------------------------------------------------------
\* C39  A payload is gone after ceil(1/speed) ticks.
\* the ticks a payload has flown (the tick that spawned it moved it once),
\* and the ticks its way takes, ceil(1 / speed); progress and speed are in
\* 1/ProgressScale
C39_Age(p) == p.progress \div p.speed

C39_TravelTicks(p) == (ProgressScale + p.speed - 1) \div p.speed

\* a payload in the world has flown a whole number of ticks, fewer than its
\* way takes
C39_Young ==
  \A k \in 1..Len(world.payloads) :
    LET p == world.payloads[k]
    IN /\ p.speed > 0
       /\ p.progress % p.speed = 0
       /\ C39_Age(p) < C39_TravelTicks(p)

\* a tick makes every payload it keeps one tick older, a payload it spawned
\* is one tick old, and no payload resolves twice
C39_Older ==
  last'.op = "tick" =>
    /\ \A k \in 1..Len(world'.payloads) :
         LET p == world'.payloads[k]
             old == {j \in 1..Len(world.payloads) : world.payloads[j].id = p.id}
         IN IF old = {} THEN C39_Age(p) = 1
            ELSE \A j \in old : C39_Age(p) = C39_Age(world.payloads[j]) + 1
    /\ \A a, b \in 1..Len(last'.arrived) :
         last'.arrived[a] = last'.arrived[b] => a = b
    /\ \A a \in 1..Len(last'.arrived) :
         /\ \E j \in 1..Len(world.payloads) : world.payloads[j].id = last'.arrived[a]
         /\ \A k \in 1..Len(world'.payloads) : world'.payloads[k].id # last'.arrived[a]

\* C39: every payload is removed: it gets one tick older with every tick it
\* stays in the world and is never older than ceil(1/speed) - 1 ticks there,
\* so a payload spawned with speed s is absent after at most ceil(1/s)
\* ticks; it resolves at its target at most once, in the tick that removes it.
C39_Removed == []C39_Young /\ [][C39_Older]_vars

\* a payload landed in the last tick of its way
C39_Witness ==
  /\ LastTick
  /\ \E k \in 1..Len(last.moved) :
       /\ C39_Age(last.moved[k]) = C39_TravelTicks(last.moved[k])
       /\ \E a \in 1..Len(last.arrived) : last.arrived[a] = last.moved[k].id
       /\ \A j \in 1..Len(world.payloads) : world.payloads[j].id # last.moved[k].id

\* payloads left the world by collision and by severance
C39_WitnessCollided ==
  /\ LastTick
  /\ last.removed # {}

C39_WitnessSevered ==
  /\ LastTick
  /\ \E j \in 1..Len(last.before.payloads) :
       /\ \A k \in 1..Len(last.moved) : last.moved[k].id # last.before.payloads[j].id

\* ---------------------------------------------------------------------------
\* C40  A finite transfer comes to an end.
C40_Finite ==
  {k \in 1..Len(world.transfers) : world.transfers[k].totalToSend # Infinity}

\* C40: under continued ticking every transfer with a finite totalToSend is
\* eventually removed from the world; it does not wait forever on an empty
\* source, which keeps growing while its owner holds it.
C40_Terminates == (C40_Finite # {}) ~> (C40_Finite = {})

\* the game goes on, the source is held, and nothing is sent to node 3
C40_Waits ==
  /\ gameState = "PLAYING"
  /\ world.nodes[1].owner = "BLUE"
  /\ world.nodes[1].count <= CountScale
  /\ Len(world.transfers) = 2
  /\ world.transfers[2].sentCount \in StarveSent
  /\ world.nodes[2].owner = "RED"
  /\ world.nodes[2].count <= 2 * CountScale
  /\ Len(world.payloads) <= 3

\* the source goes on growing and its units leave with the stream
C40_StreamServed ==
  []<>(\E k \in 1..Len(world.payloads) : world.payloads[k].progress = world.payloads[k].speed)
====
